---------------------------- MODULE Spec2Model ----------------------------
(***************************************************************************)
(* Verification model of the the-game-bureau/sports harvesting scripts.    *)
(*                                                                         *)
(* Each script is an independent run-once pipeline, so each gets its own   *)
(* specification over its own group of variables:                          *)
(*   SpecGames : games.py   collect_season / harvest / main                *)
(*   SpecCfb   : schedule.py get_cfb_schedule_xml                          *)
(*   SpecWeek  : 2025_nfl_schedule_espn.py process_event_data (week chain) *)
(*   SpecMerge : 2025_nfl_schedule_espn.py merge_game_data                 *)
(* The variables of the scripts a specification does not run stay at their *)
(* initial values.                                                         *)
(***************************************************************************)
EXTENDS Integers, Sequences, FiniteSets, TLC

VARIABLES
    \* ---- games.py ----
    g_pc,          \* position in main(): "harvest", "sleep", "write", "done", "crashed"
    seasontype,    \* harvest() argument: 2 (REG) or 3 (POST)
    week,          \* harvest() local
    empty_streak,  \* harvest() local
    all_games,     \* collect_season() local: the list of collected games
    g_trace,       \* history: every request issued and every pause taken, in order
    g_gaps,        \* history: isolated empty weeks answered so far
    written,       \* whether write_games_xml was called, and with which games
    \* ---- schedule.py ----
    c_pc,          \* position in get_cfb_schedule_xml(): "index", "fetch", "sleep", "after_weeks", "done"
    year_idx,      \* position of `year` in [2025, 2024]
    c_week,        \* the week loop variable
    c_all_games,   \* get_cfb_schedule_xml() local all_games
    conf_index,    \* result of build_conference_index(year): "standings" or "empty"
    created,       \* whether create_xml was called, and with which arguments
    c_last_week,   \* upstream: per year, the last week that holds events
    c_trace,       \* history: every request issued and every pause taken, in order
    c_failures,    \* history: failed week requests so far
    \* ---- 2025_nfl_schedule_espn.py: process_event_data, one event ----
    event,         \* the event being processed (its week fields and its date)
    w_pc,          \* position in the loop body: "s1", "s2", "s3", "s4", "final", "game", "done"
    week_number,   \* process_event_data() local
    consulted,     \* history: the week strategies evaluated for this event
    game,          \* the game record built for the event
    \* ---- 2025_nfl_schedule_espn.py: save_json / merge_game_data ----
    m_pc,          \* position in save_json(): "load", "saved"
    existing_games,\* load_existing_data(full_path): the games of the prior file
    new_games,     \* data.get('games'): the freshly processed games
    merged_games,  \* save_json() local: what is written to the file
    \* ---- maker.py ----
    k_pc,          \* position in main(): "read", "merge", "write", "done"
    teams_xml,     \* the file teams.xml on disk
    new_df,        \* main() local: the flattened rows of the fresh fetch
    existing_df,   \* main() local: read_existing_xml(XML_FILE)
    merged_df,     \* main() local: dedupe_merge(existing_df, new_df)
    fs_ops,        \* history: the file operations of the run, in order
    \* ---- 2025_nfl_schedule_espn.py: run(), from save_json on ----
    r_pc,          \* position: "save_json", "json_backup", "json_write", "xml_backup", "xml_write", "done"
    processed_games, \* run() local: the games of process_event_data
    json_file,     \* 2025_nfl_schedule.json on disk
    xml_file,      \* 2025_nfl_schedule.xml on disk
    final_games,   \* save_json() local: final_data['games']
    backups,       \* the backup copies written by the run
    \* ---- the conference normalizers of schedule.py and archive/schedule.py ----
    n_fn,          \* the normalizer of the running script: "normalize_conference_name" or "normalize_conf"
    raw_label,     \* the raw conference label handed to it
    n_out,         \* the results of the successive applications, in order
    \* ---- games.py: parse_event(ev), one event ----
    p_pc,          \* "parse", then "returned" or "raised"
    p_event,       \* the event dict handed to parse_event
    parsed,        \* the dict parse_event returned
    \* ---- 2025_nfl_schedule_espn.py: process_event_data, the competitors of one event ----
    d_pc,          \* "competitors", "filter", "done"
    d_event,       \* the event obtained: its id, its name and its competitors
    d_i,           \* the position of the for loop over competitors
    d_game,        \* the game dict being built
    processed,     \* processed_games
    d_fetches,     \* history: per competitor seen, the outcome of each dereference
    \* ---- teams.py ----
    t_pc,          \* position in main(): "fbs", "ac", "sec", "fcs", "nfl", "write", "done", "exit"
    fbs_page,      \* the FBS programs page of the upstream
    fcs_page,      \* the FCS programs page of the upstream
    ncaa,          \* build_ncaa_records() local out
    t_file,        \* the file teams.xml in the working directory
    t_exit,        \* the exit status of the script and what it printed on failure
    t_steps,       \* history: the sources parsed so far, in order
    \* ---- the serializers: write_games_xml, convert_to_xml, cast_all_to_str ----
    s_pc,          \* "serialize", "done", "raised"
    s_input,       \* the serializer that runs and the source value it is given
    s_texts,       \* the text values emitted, each with its tag and its source value
    \* ---- 2025_nfl_schedule_espn.py: the fetches of process_event_data ----
    f_pc,          \* position in the loop body: "event", "competitors", "done"
    f_event,       \* the event as listed: inline or a $ref marker, and its competitors
    f_graph,       \* upstream: the $ref the object served at a URL carries itself, or "none"
    f_i,           \* position in the for loop over competitors
    f_fetched,     \* history: every GET issued, with the marker it was issued for
    \* ---- 2025_nfl_schedule_espn.py: main and run(method) ----
    a_pc,          \* position in run(): "current", "events", "weeks", "dates", "alternative", "fetched", "processed", "exited"
    a_method,      \* the command line argument of main()
    a_upstream,    \* upstream: which fetch methods return events, and whether any of them can be processed
    a_events,      \* run() local events
    a_games,       \* run() local processed_games
    a_calls,       \* history: the fetch methods invoked, in order
    a_written,     \* history: the files written by the run
    a_exit,        \* what run() returned and the exit status of the process
    \* ---- schedule.py: build_conference_index ----
    b_pc,          \* "build", "done"
    standings,     \* upstream: the standings tree of the season
    b_idx,         \* build_conference_index() local idx: team id -> stored name
    \* ---- 2025_nfl_schedule_espn.py: merge_game_data applied twice ----
    i_pc,          \* "first", "second", "done"
    i_existing,    \* the list E of existing games
    i_new,         \* the list N of new games
    i_first,       \* merge_game_data(E, N)
    i_second       \* merge_game_data(merge_game_data(E, N), N)

gvars == <<g_pc, seasontype, week, empty_streak, all_games, g_trace, g_gaps, written>>

cvars == <<c_pc, year_idx, c_week, c_all_games, conf_index, created, c_last_week,
           c_trace, c_failures>>

wvars == <<event, w_pc, week_number, consulted, game>>

mvars == <<m_pc, existing_games, new_games, merged_games>>

kvars == <<k_pc, teams_xml, new_df, existing_df, merged_df, fs_ops>>

rvars == <<r_pc, processed_games, json_file, xml_file, final_games, backups>>

nvars == <<n_fn, raw_label, n_out>>

pvars == <<p_pc, p_event, parsed>>

dvars == <<d_pc, d_event, d_i, d_game, processed, d_fetches>>

tvars == <<t_pc, fbs_page, fcs_page, ncaa, t_file, t_exit, t_steps>>

xvars == <<s_pc, s_input, s_texts>>

fvars == <<f_pc, f_event, f_graph, f_i, f_fetched>>

avars == <<a_pc, a_method, a_upstream, a_events, a_games, a_calls, a_written, a_exit>>

bvars == <<b_pc, standings, b_idx>>

ivars == <<i_pc, i_existing, i_new, i_first, i_second>>

vars == <<gvars, cvars, wvars, mvars, kvars, rvars, nvars, pvars, dvars, tvars, xvars, fvars, avars, bvars, ivars>>

(***************************************************************************)
(* Bounds of the model                                                     *)
(***************************************************************************)
\* isolated empty weeks (an empty week followed by a non-empty one) the
\* upstream answers with during one run of games.py
MaxGaps == 1
\* events the upstream holds for one week
MaxEvents == 2
\* week requests of one run of schedule.py that may fail
MaxFailures == 1
\* the upstream holds college-football events for weeks 1..n of a year,
\* n <= MaxLastWeek (later weeks are not populated yet)
MaxLastWeek == 2
\* event dates range over the months of 2025 from PreseasonMonths before
\* September up to December, and over the first PostseasonMonths of 2026
PreseasonMonths == 1
PostseasonMonths == 2
\* games in the prior file and in the fresh fetch, when lists are merged
MaxGames == 2
\* rows of the prior teams.xml and of the fresh fetch of maker.py, together
MaxRows == 3
\* blanks before and after a raw conference label
MaxPad == 1
\* times a label is put through a normalizer
MaxApplications == 2
\* competitors of one competition handed to parse_event
MaxCompetitors == 2
\* rows of the programs table of a Wikipedia page
MaxPrograms == 2

(***************************************************************************)
(* games.py                                                                *)
(***************************************************************************)
\* a run of games.py touches nothing of the other scripts
OnlyGames == UNCHANGED <<cvars, wvars, mvars, kvars, rvars, nvars, pvars, dvars, tvars, xvars, fvars, avars, bvars, ivars>>

REG == 2
POST == 3
RegMaxWeeksGuess == 20
PostMaxWeeksGuess == 6

\* harvest(seasontype=2, label="REG", max_weeks_guess=20)
\* harvest(seasontype=3, label="POST", max_weeks_guess=6)
max_weeks_guess(st) == IF st = REG THEN RegMaxWeeksGuess ELSE PostMaxWeeksGuess

\* g["season_type"] = "REG" if seasontype == 2 else "POST"
SeasonLabel(st) == IF st = REG THEN "REG" ELSE "POST"

\* The events the upstream holds for week w of season type st when that week
\* is populated: between 1 and MaxEvents events, identified by (st, w, k).
UpstreamEvents(st, w) ==
    [k \in 1..(1 + ((w + st) % MaxEvents)) |-> [st |-> st, w |-> w, k |-> k]]

\* parse_event(ev) followed by the two assignments of harvest():
\* the flattened game carries the event id, the season label and str(week).
GameOf(ev, st, w) ==
    [espn_event_id |-> <<ev.st, ev.w, ev.k>>, season_type |-> SeasonLabel(st), week |-> w]

\* a harvest that keeps only the first event of a week
GamesOfFirstOnly(events, st, w) == [i \in 1..1 |-> GameOf(events[i], st, w)]

\* for ev in events: g = parse_event(ev); ...; all_games.append(g)
GamesOf(events, st, w) == [i \in 1..Len(events) |-> GameOf(events[i], st, w)]

Request(st, w, res) == [op |-> "request", seasontype |-> st, week |-> w, result |-> res]
Pause == [op |-> "sleep", seasontype |-> 0, week |-> 0, result |-> "-"]

\* `break` out of the while loop: harvest() returns with its locals at
\* (w, es).  After the REG harvest collect_season calls the POST harvest,
\* which starts with fresh locals; after the POST harvest it returns and
\* main() goes on to write_games_xml (no --teams filter).
BreakHarvest(w, es) ==
    IF seasontype = REG
    THEN /\ seasontype' = POST
         /\ week' = 1
         /\ empty_streak' = 0
         /\ g_pc' = "harvest"
    ELSE /\ seasontype' = seasontype
         /\ week' = w
         /\ empty_streak' = es
         /\ g_pc' = "write"

\* a harvest that needs three empty weeks in a row to stop
StopOnEmptyLate(es) == es >= 3

\* if empty_streak >= 2: break
StopOnEmpty(es) == es >= 2

\* a safety valve that opens one week later
SafetyValveLate(w, st) == w > max_weeks_guess(st) + 1

\* if week > max_weeks_guess: break   (the safety valve)
SafetyValve(w, st) == w > max_weeks_guess(st)

\* One iteration of the while loop in which fetch_week returns a payload
\* with events: the streak is reset, every event is appended, the week is
\* advanced, and the loop either breaks at the safety valve or sleeps.
HarvestEvents ==
    /\ OnlyGames
    /\ g_pc = "harvest"
    /\ (empty_streak = 1 => g_gaps < MaxGaps)
    /\ g_trace' = Append(g_trace, Request(seasontype, week, "events"))
    /\ g_gaps' = IF empty_streak = 1 THEN g_gaps + 1 ELSE g_gaps
    /\ all_games' = all_games \o GamesOf(UpstreamEvents(seasontype, week), seasontype, week)
    /\ IF SafetyValve(week + 1, seasontype)
       THEN BreakHarvest(week + 1, 0)
       ELSE /\ week' = week + 1
            /\ empty_streak' = 0
            /\ g_pc' = "sleep"
            /\ UNCHANGED seasontype
    /\ UNCHANGED written

\* One iteration in which fetch_week returns no events: the streak grows;
\* at two in a row the loop breaks, otherwise the week is advanced and the
\* loop continues at once (`continue` skips the safety valve and the sleep).
HarvestEmpty ==
    /\ OnlyGames
    /\ g_pc = "harvest"
    /\ g_trace' = Append(g_trace, Request(seasontype, week, "empty"))
    /\ IF StopOnEmpty(empty_streak + 1)
       THEN BreakHarvest(week, empty_streak + 1)
       ELSE /\ week' = week + 1
            /\ empty_streak' = empty_streak + 1
            /\ UNCHANGED <<seasontype, g_pc>>
    /\ UNCHANGED <<all_games, g_gaps, written>>

\* One iteration in which raise_for_status raises requests.HTTPError
\* (non-2xx): caught, logged, the loop breaks.
HarvestHTTPError ==
    /\ OnlyGames
    /\ g_pc = "harvest"
    /\ g_trace' = Append(g_trace, Request(seasontype, week, "http_error"))
    /\ BreakHarvest(week, empty_streak)
    /\ UNCHANGED <<all_games, g_gaps, written>>

\* One iteration in which sess.get raises requests.Timeout or
\* requests.ConnectionError: neither is a requests.HTTPError, so the except
\* clause does not catch it and it propagates out of collect_season and main.
HarvestTimeout ==
    /\ OnlyGames
    /\ g_pc = "harvest"
    /\ g_trace' = Append(g_trace, Request(seasontype, week, "timeout"))
    /\ g_pc' = "crashed"
    /\ UNCHANGED <<seasontype, week, empty_streak, all_games, g_gaps, written>>

\* time.sleep(0.25), then the next iteration
HarvestSleep ==
    /\ OnlyGames
    /\ g_pc = "sleep"
    /\ g_trace' = Append(g_trace, Pause)
    /\ g_pc' = "harvest"
    /\ UNCHANGED <<seasontype, week, empty_streak, all_games, g_gaps, written>>

\* main(): write_games_xml(games, args.season, args.out)
WriteGamesXml ==
    /\ OnlyGames
    /\ g_pc = "write"
    /\ written' = [called |-> TRUE, games |-> all_games]
    /\ g_pc' = "done"
    /\ UNCHANGED <<seasontype, week, empty_streak, all_games, g_trace, g_gaps>>

InitGamesVars ==
    /\ g_pc = "harvest"
    /\ seasontype = REG
    /\ week = 1
    /\ empty_streak = 0
    /\ all_games = <<>>
    /\ g_trace = <<>>
    /\ g_gaps = 0
    /\ written = [called |-> FALSE, games |-> <<>>]

(***************************************************************************)
(* schedule.py: get_cfb_schedule_xml                                       *)
(***************************************************************************)
\* a run of schedule.py touches nothing of the other scripts
OnlyCfb == UNCHANGED <<gvars, wvars, mvars, kvars, rvars, nvars, pvars, dvars, tvars, xvars, fvars, avars, bvars, ivars>>

\* for year in [2025, 2024]
Years == <<2025, 2024>>
\* for week in range(1, 16)
CfbWeeks == 15

year == Years[year_idx]

\* data['events'] of a populated week: 1..MaxEvents events, identified by
\* (year, week, k)
CfbEvents(y, w) ==
    [k \in 1..(1 + (w % MaxEvents)) |-> [year |-> y, w |-> w, k |-> k]]

CfbRequest(y, w, res) == [op |-> "request", year |-> y, week |-> w, result |-> res]
CfbPause == [op |-> "sleep", year |-> 0, week |-> 0, result |-> "-"]

\* the for loop takes its next week, or is exhausted
CfbAdvance ==
    /\ c_week' = c_week + 1
    /\ c_pc' = IF c_week + 1 > CfbWeeks THEN "after_weeks" ELSE "fetch"

\* an `except Exception` handler that leaves the week loop
CfbAbandonWeeks ==
    /\ c_week' = c_week
    /\ c_pc' = "after_weeks"

\* except Exception: continue
CfbOnException == CfbAdvance

\* conf_index = build_conference_index(year); all_games = []
\* (a failed standings request yields the empty index)
BuildConferenceIndex ==
    /\ OnlyCfb
    /\ c_pc = "index"
    /\ \E ok \in BOOLEAN :
         /\ conf_index' = IF ok THEN "standings" ELSE "empty"
         /\ c_trace' = Append(c_trace,
                CfbRequest(year, 0, IF ok THEN "standings" ELSE "standings_fail"))
    /\ c_all_games' = <<>>
    /\ c_week' = 1
    /\ c_pc' = "fetch"
    /\ UNCHANGED <<year_idx, created, c_last_week, c_failures>>

\* the request of one week succeeds and data['events'] is non-empty:
\* all_games.extend(data['events']), then time.sleep(0.3)
CfbFetchEvents ==
    /\ OnlyCfb
    /\ c_pc = "fetch"
    /\ c_week <= c_last_week[year_idx]
    /\ c_trace' = Append(c_trace, CfbRequest(year, c_week, "events"))
    /\ c_all_games' = c_all_games \o CfbEvents(year, c_week)
    /\ c_pc' = "sleep"
    /\ UNCHANGED <<year_idx, c_week, conf_index, created, c_last_week, c_failures>>

\* the request of one week succeeds with no events, then time.sleep(0.3)
CfbFetchEmpty ==
    /\ OnlyCfb
    /\ c_pc = "fetch"
    /\ c_week > c_last_week[year_idx]
    /\ c_trace' = Append(c_trace, CfbRequest(year, c_week, "empty"))
    /\ c_pc' = "sleep"
    /\ UNCHANGED <<year_idx, c_week, c_all_games, conf_index, created, c_last_week,
                   c_failures>>

\* requests.get, raise_for_status or response.json() raises (timeout,
\* connection error, non-2xx, bad body): except Exception: continue
CfbFetchFail ==
    /\ OnlyCfb
    /\ c_pc = "fetch"
    /\ c_failures < MaxFailures
    /\ c_failures' = c_failures + 1
    /\ c_trace' = Append(c_trace, CfbRequest(year, c_week, "fail"))
    /\ CfbOnException
    /\ UNCHANGED <<year_idx, c_all_games, conf_index, created, c_last_week>>

\* time.sleep(0.3) returns and the for loop goes on
CfbSleep ==
    /\ OnlyCfb
    /\ c_pc = "sleep"
    /\ c_trace' = Append(c_trace, CfbPause)
    /\ CfbAdvance
    /\ UNCHANGED <<year_idx, c_all_games, conf_index, created, c_last_week, c_failures>>

\* if all_games: create_xml(all_games, year, conf_index); return
CfbCreateXml ==
    /\ OnlyCfb
    /\ c_pc = "after_weeks"
    /\ c_all_games # <<>>
    /\ created' = [called |-> TRUE, year |-> year, games |-> c_all_games, conf_index |-> conf_index]
    /\ c_pc' = "done"
    /\ UNCHANGED <<year_idx, c_week, c_all_games, conf_index, c_last_week, c_trace,
                   c_failures>>

\* else: "No games found for {year}": the next year, or after the last
\* year "Could not find any schedule data"
CfbNoGames ==
    /\ OnlyCfb
    /\ c_pc = "after_weeks"
    /\ c_all_games = <<>>
    /\ IF year_idx < Len(Years)
       THEN /\ year_idx' = year_idx + 1
            /\ c_pc' = "index"
       ELSE /\ year_idx' = year_idx
            /\ c_pc' = "done"
    /\ UNCHANGED <<c_week, c_all_games, conf_index, created, c_last_week, c_trace,
                   c_failures>>

InitCfbVars ==
    /\ c_pc = "index"
    /\ year_idx = 1
    /\ c_week = 1
    /\ c_all_games = <<>>
    /\ conf_index = "empty"
    /\ created = [called |-> FALSE, year |-> 0, games |-> <<>>, conf_index |-> "empty"]
    /\ c_last_week \in [1..Len(Years) -> 0..MaxLastWeek]
    /\ c_trace = <<>>
    /\ c_failures = 0

\* schedule.py is not run
CfbOff ==
    /\ c_pc = "off"
    /\ year_idx = 1
    /\ c_week = 1
    /\ c_all_games = <<>>
    /\ conf_index = "empty"
    /\ created = [called |-> FALSE, year |-> 0, games |-> <<>>, conf_index |-> "empty"]
    /\ c_last_week = [i \in 1..Len(Years) |-> 0]
    /\ c_trace = <<>>
    /\ c_failures = 0

(***************************************************************************)
(* 2025_nfl_schedule_espn.py: the week of one event in process_event_data  *)
(***************************************************************************)
\* processing one event touches nothing of the other scripts
OnlyWeek == UNCHANGED <<gvars, cvars, mvars, kvars, rvars, nvars, pvars, dvars, tvars, xvars, fvars, avars, bvars, ivars>>

\* Week fields of the upstream JSON are modelled by integers:
\*   -2  the key is missing,  -1  JSON null,  0  the number 0,  n > 0  week n.
\* week_number holds a Python str, or the falsy number 0 written IntZero.
IntZero == "<int 0>"

\* Python truthiness of week_number
Truthy(v) == v # "" /\ v # IntZero

\* str(n) of a week field
Str(n) == IF n < 0 THEN "None" ELSE ToString(n)

\* get_nested_value(data, keys, ''): '' for a missing key or a null value,
\* the value itself otherwise
get_nested_value(n) == IF n < 0 THEN "" ELSE IF n = 0 THEN IntZero ELSE ToString(n)

\* Strategies 1 and 3: week_number = get_nested_value(...); if week_number:
\* week_number = str(week_number)
NestedWeek(n) == get_nested_value(n)

\* get_week_from_competition_data(event)
get_week_from_competition_data(ev) ==
    LET c == ev.comp IN
    CASE c.kind = "no_competitions" -> ""
      [] c.kind = "week_dict" -> IF c.val = -2 THEN "" ELSE Str(c.val)
      [] c.kind = "week_scalar" -> Str(c.val)
      [] c.kind = "season_type_week" -> Str(c.val)
      [] OTHER -> ""

\* datetime(2025, 9, 4)
SeasonStartYear == 2025
SeasonStartMonth == 9
SeasonStartDay == 4
\* if 1 <= week_number <= 18
RegularSeasonWeeks == 18

\* calendar of 2025 and 2026 (no leap year)
DaysInMonth(m) ==
    CASE m \in {4, 6, 9, 11} -> 30
      [] m = 2 -> 28
      [] OTHER -> 31

RECURSIVE DaysBeforeMonth(_)
DaysBeforeMonth(m) == IF m = 1 THEN 0 ELSE DaysBeforeMonth(m - 1) + DaysInMonth(m - 1)

\* days from 1 January 2025 to the date
DayNumber(y, m, d) == (y - 2025) * 365 + DaysBeforeMonth(m) + (d - 1)

\* (game_date - season_start).days, for a game_date not before season_start
days_since_start(dt) ==
    DayNumber(dt.y, dt.m, dt.d)
      - DayNumber(SeasonStartYear, SeasonStartMonth, SeasonStartDay)

\* datetime.fromisoformat yields an offset-aware datetime for a timestamp
\* with a 'Z' suffix (replaced by +00:00), a naive one otherwise
Aware(dt) == dt.fmt = "TZ"

\* 'T' in date_str
HasT(dt) == dt.fmt \in {"TZ", "T"}

\* an estimate that labels every week after 18 as a playoff week
EstimateNoJanuaryClamp(dt) ==
    IF Aware(dt)
    THEN ""
    ELSE IF days_since_start(dt) < 0
         THEN ""
         ELSE LET n == (days_since_start(dt) \div 7) + 1 IN
              IF 1 <= n /\ n <= RegularSeasonWeeks
              THEN ToString(n)
              ELSE "P" \o ToString(n - RegularSeasonWeeks)

\* estimate_week_from_date(date_str).  Comparing an offset-aware game_date
\* with the naive season_start raises TypeError, which the function's own
\* except clause turns into ''.
estimate_week_from_date(dt) ==
    IF Aware(dt)
    THEN ""
    ELSE IF days_since_start(dt) < 0
         THEN ""
         ELSE LET n == (days_since_start(dt) \div 7) + 1 IN
              IF 1 <= n /\ n <= RegularSeasonWeeks
              THEN ToString(n)
              ELSE IF dt.m = 1 /\ dt.y = 2026
                   THEN "18"
                   ELSE "P" \o ToString(n - RegularSeasonWeeks)

\* the "final attempt" of process_event_data: the month-based table
ManualWeek(dt) ==
    IF ~HasT(dt)
    THEN ""
    ELSE CASE dt.m = 9  -> IF dt.d <= 10 THEN "1"
                           ELSE IF dt.d <= 17 THEN "2"
                           ELSE IF dt.d <= 24 THEN "3"
                           ELSE "4"
           [] dt.m = 10 -> ToString(4 + ((dt.d - 1) \div 7) + 1)
           [] dt.m = 11 -> ToString(8 + ((dt.d - 1) \div 7) + 1)
           [] dt.m = 12 -> ToString(12 + ((dt.d - 1) \div 7) + 1)
           [] dt.m = 1 /\ dt.y = 2026 -> "18"
           [] OTHER -> ""

\* a chain whose strategies overwrite whatever was found before
AlwaysConsult(wn) == TRUE

\* if not week_number:
ShouldConsult(wn) == ~Truthy(wn)

\* Strategy 1: week_number = get_nested_value(event, ['week', 'number'], '')
Strategy1 ==
    /\ OnlyWeek
    /\ w_pc = "s1"
    /\ week_number' = NestedWeek(event.week)
    /\ consulted' = consulted \cup {1}
    /\ w_pc' = "s2"
    /\ UNCHANGED <<event, game>>

\* Strategy 2: if not week_number:
\*     week_number = self.get_week_from_competition_data(event)
Strategy2 ==
    /\ OnlyWeek
    /\ w_pc = "s2"
    /\ IF ShouldConsult(week_number)
       THEN /\ week_number' = get_week_from_competition_data(event)
            /\ consulted' = consulted \cup {2}
       ELSE UNCHANGED <<week_number, consulted>>
    /\ w_pc' = "s3"
    /\ UNCHANGED <<event, game>>

\* Strategy 3: if not week_number:
\*     week_number = get_nested_value(event, ['season', 'week', 'number'], '')
Strategy3 ==
    /\ OnlyWeek
    /\ w_pc = "s3"
    /\ IF ShouldConsult(week_number)
       THEN /\ week_number' = NestedWeek(event.season_week)
            /\ consulted' = consulted \cup {3}
       ELSE UNCHANGED <<week_number, consulted>>
    /\ w_pc' = "s4"
    /\ UNCHANGED <<event, game>>

\* Strategy 4: if not week_number: event_date = event.get('date');
\*     if event_date: week_number = self.estimate_week_from_date(event_date)
Strategy4 ==
    /\ OnlyWeek
    /\ w_pc = "s4"
    /\ IF ShouldConsult(week_number) /\ event.date.present
       THEN /\ week_number' = estimate_week_from_date(event.date)
            /\ consulted' = consulted \cup {4}
       ELSE UNCHANGED <<week_number, consulted>>
    /\ w_pc' = "final"
    /\ UNCHANGED <<event, game>>

\* Final check: if not week_number: if event.get('date'): the month table
\* (it assigns week_number only when it finds a week)
FinalCheck ==
    /\ OnlyWeek
    /\ w_pc = "final"
    /\ IF ~Truthy(week_number) /\ event.date.present
       THEN /\ week_number' = IF ManualWeek(event.date) # ""
                              THEN ManualWeek(event.date)
                              ELSE week_number
            /\ consulted' = consulted \cup {5}
       ELSE UNCHANGED <<week_number, consulted>>
    /\ w_pc' = "game"
    /\ UNCHANGED <<event, game>>

\* game = {..., 'week': week_number, ...}
BuildGame ==
    /\ OnlyWeek
    /\ w_pc = "game"
    /\ game' = [built |-> TRUE, week |-> week_number]
    /\ w_pc' = "done"
    /\ UNCHANGED <<event, week_number, consulted>>

\* the dates an event may carry
Months2025 == (SeasonStartMonth - PreseasonMonths)..12
Months2026 == 1..PostseasonMonths

EventDates ==
    {[present |-> FALSE, y |-> 0, m |-> 0, d |-> 0, fmt |-> "-"]}
    \cup {[present |-> TRUE, y |-> 2025, m |-> m, d |-> d, fmt |-> f] :
            m \in Months2025, d \in 1..31, f \in {"TZ", "T", "D"}}
    \cup {[present |-> TRUE, y |-> 2026, m |-> m, d |-> d, fmt |-> f] :
            m \in Months2026, d \in 1..31, f \in {"TZ", "T", "D"}}

ValidDate(dt) == dt.present => dt.d <= DaysInMonth(dt.m)

\* the shapes competitions[0] may have, as far as the week is concerned
CompInputs ==
    {[kind |-> "no_competitions", val |-> -2], [kind |-> "no_week", val |-> -2],
     [kind |-> "week_scalar", val |-> 6], [kind |-> "season_type_week", val |-> 6]}
    \cup {[kind |-> "week_dict", val |-> v] : v \in {-2, -1, 0, 6}}

EventInputs ==
    {ev \in [week : {-2, 0, 5}, comp : CompInputs, season_week : {-2, 0, 7},
             date : EventDates] : ValidDate(ev.date)}

InitWeekVars ==
    /\ event \in EventInputs
    /\ w_pc = "s1"
    /\ week_number = ""
    /\ consulted = {}
    /\ game = [built |-> FALSE, week |-> ""]

\* process_event_data is not run
WeekOff ==
    /\ event = [week |-> -2, comp |-> [kind |-> "no_competitions", val |-> -2],
                season_week |-> -2,
                date |-> [present |-> FALSE, y |-> 0, m |-> 0, d |-> 0, fmt |-> "-"]]
    /\ w_pc = "off"
    /\ week_number = ""
    /\ consulted = {}
    /\ game = [built |-> FALSE, week |-> ""]

(***************************************************************************)
(* 2025_nfl_schedule_espn.py: save_json, merge_game_data                   *)
(***************************************************************************)
\* save_json touches nothing of the other scripts
OnlyMerge == UNCHANGED <<gvars, cvars, wvars, kvars, rvars, nvars, pvars, dvars, tvars, xvars, fvars, avars, bvars, ivars>>

\* A game record is modelled by the fields
\*   id, name        name stands for the fields games_differ compares
\*   season          stands for the fields games_differ does not compare
\*   last_updated    set by merge_single_game, '' when the key is missing
\*   teams           a list of team records
\* and a team record by id, score (a field games_differ compares) and
\* location (a field it does not compare).  '' is the empty value.
TeamFields == {"id", "score", "location"}

\* datetime.now().isoformat() at the time of the merge
Now == "t1"

\* positions of seq whose record has the id
WithId(seq, id) == {i \in 1..Len(seq) : seq[i].id = id}

Max(S) == CHOOSE x \in S : \A y \in S : y <= x

\* {rec['id']: rec for rec in seq}[id]: the last record with the id
Lookup(seq, id) == seq[Max(WithId(seq, id))]

\* the keys of {game['id']: game for game in games if game.get('id')}, in
\* the dict's order (first insertion)
RECURSIVE KeysById(_)
KeysById(games) ==
    IF games = <<>> THEN <<>>
    ELSE LET front == KeysById(SubSeq(games, 1, Len(games) - 1))
             id == games[Len(games)].id
         IN  IF id = "" \/ \E i \in 1..Len(front) : front[i] = id
             THEN front
             ELSE Append(front, id)

\* the values of that dict, in the dict's order
ById(games) == [i \in 1..Len(KeysById(games)) |-> Lookup(games, KeysById(games)[i])]

HasKey(games, id) == \E i \in 1..Len(KeysById(games)) : KeysById(games)[i] = id

\* games_differ(game1, game2)
games_differ(game1, game2) ==
    \/ game1.name # game2.name
    \/ Len(game1.teams) # Len(game2.teams)
    \/ \E i \in 1..Len(game1.teams) : game1.teams[i].score # game2.teams[i].score

\* a merge in which the new value always wins
TakeNew(value, old) == value

\* if value: merged[key] = value
UpdateIfValue(value, old) == IF value # "" THEN value ELSE old

\* merged_team = existing_teams[team_id].copy(); for key, value in
\* new_team.items(): if value: merged_team[key] = value
merge_team(existing_team, new_team) ==
    [f \in TeamFields |-> UpdateIfValue(new_team[f], existing_team[f])]

\* merge_single_game(existing_game, new_game)
merge_single_game(existing_game, new_game) ==
    LET merged_teams ==
          [i \in 1..Len(new_game.teams) |->
             IF WithId(existing_game.teams, new_game.teams[i].id) # {}
             THEN merge_team(Lookup(existing_game.teams, new_game.teams[i].id),
                             new_game.teams[i])
             ELSE new_game.teams[i]]
    IN  [id |-> UpdateIfValue(new_game.id, existing_game.id),
         name |-> UpdateIfValue(new_game.name, existing_game.name),
         season |-> UpdateIfValue(new_game.season, existing_game.season),
         teams |-> IF new_game.teams # <<>> THEN merged_teams ELSE existing_game.teams,
         last_updated |-> Now]

\* the first loop of merge_game_data: one entry per existing id
MergeExisting(existing_by_id, new) ==
    [i \in 1..Len(existing_by_id) |->
       LET existing_game == existing_by_id[i] IN
       IF HasKey(new, existing_game.id)
       THEN IF games_differ(existing_game, Lookup(new, existing_game.id))
            THEN merge_single_game(existing_game, Lookup(new, existing_game.id))
            ELSE existing_game
       ELSE existing_game]

\* a second loop that appends every new game
AddAllNew(existing, new_by_id) == new_by_id

\* the second loop of merge_game_data: the new ids not among the existing
AddNew(existing, new_by_id) ==
    SelectSeq(new_by_id, LAMBDA g : ~HasKey(existing, g.id))

\* merge_game_data(existing_games, new_games)
merge_game_data(existing, new) ==
    MergeExisting(ById(existing), new) \o AddNew(existing, ById(new))

\* save_json with a prior file that holds games:
\* merged_games = self.merge_game_data(existing_games, new_games)
SaveJsonMerge ==
    /\ OnlyMerge
    /\ m_pc = "load"
    /\ existing_games # <<>>
    /\ merged_games' = merge_game_data(existing_games, new_games)
    /\ m_pc' = "saved"
    /\ UNCHANGED <<existing_games, new_games>>

\* save_json without prior games: merged_games = new_games
SaveJsonCreate ==
    /\ OnlyMerge
    /\ m_pc = "load"
    /\ existing_games = <<>>
    /\ merged_games' = new_games
    /\ m_pc' = "saved"
    /\ UNCHANGED <<existing_games, new_games>>

\* the team records of a game
TeamRecs == [id : {"t1", "t2"}, score : {"", "7"}, location : {"", "NY"}]

TeamLists == {<<>>} \cup {<<t>> : t \in TeamRecs}

\* process_event_data keeps a game only if it has an id or a name (or a
\* named team); a freshly processed game has no last_updated
NewGameRecs ==
    {g \in [id : {"", "g1", "g2"}, name : {"", "A"}, season : {"", "2024", "2025"},
            last_updated : {""}, teams : TeamLists] :
        g.id # "" \/ g.name # ""}

\* a game of the prior file was written by an earlier run: as processed, or
\* (for a game with an id) as merged at time "t0"
ExistingGameRecs ==
    NewGameRecs \cup
    {[g EXCEPT !.last_updated = "t0"] : g \in {h \in NewGameRecs : h.id # ""}}

\* games that differ in their id only
PlainGames ==
    {[id |-> i, name |-> "A", season |-> "2025", last_updated |-> "", teams |-> <<>>] :
        i \in {"", "g1", "g2", "g3"}}

SeqsUpTo(S, lo, hi) == UNION {[1..n -> S] : n \in lo..hi}

\* run() reaches save_json only with at least one processed game.  Either
\* one prior game meets one fresh game, with every combination of field
\* values, or lists of up to MaxGames plain games meet.
InitMergeVars ==
    /\ m_pc = "load"
    /\ merged_games = <<>>
    /\ \/ /\ existing_games \in SeqsUpTo(ExistingGameRecs, 1, 1)
          /\ new_games \in SeqsUpTo(NewGameRecs, 1, 1)
       \/ /\ existing_games \in SeqsUpTo(PlainGames, 0, MaxGames)
          /\ new_games \in SeqsUpTo(PlainGames, 1, MaxGames)

\* save_json is not run
MergeOff ==
    /\ m_pc = "off"
    /\ existing_games = <<>>
    /\ new_games = <<>>
    /\ merged_games = <<>>

(***************************************************************************)
(* maker.py: main, read_existing_xml, dedupe_merge                         *)
(***************************************************************************)
\* maker.py touches nothing of the other scripts
OnlyMaker == UNCHANGED <<gvars, cvars, wvars, mvars, rvars, nvars, pvars, dvars, tvars, xvars, fvars, avars, bvars, ivars>>

XML_FILE == "teams.xml"
CSV_FILE == "teams.csv"

\* A DataFrame is modelled by the list of its rows, a row by a record over
\* Columns.  A cell holds a string or NaN (the key was missing from the
\* fetched dict, or the element of the file was empty); a column all of
\* whose cells are NaN is taken not to be a column of the frame.  color
\* stands for the fetched fields that are no part of the identity.
NaN == "<NaN>"

Columns == {"league_marker", "uid", "id", "displayName", "color"}

\* c in df.columns
HasColumn(df, c) == \E i \in 1..Len(df) : df[i][c] # NaN

\* r.get(c, "") for the row at position i of df
RowGet(df, i, c) == IF HasColumn(df, c) THEN df[i][c] ELSE ""

\* str(x).strip(): str(float('nan')) is 'nan'
StrStrip(x) == IF x = NaN THEN "nan" ELSE x

\* key_row(r) for the row at position i of df; r.name is the index label,
\* which starts at 0 after concat(..., ignore_index=True)
key_row(df, i) ==
    LET league == StrStrip(RowGet(df, i, "league_marker"))
        uid == StrStrip(RowGet(df, i, "uid"))
        tid == StrStrip(RowGet(df, i, "id"))
        name == StrStrip(RowGet(df, i, "displayName"))
        base == IF uid # "" THEN uid
                ELSE IF tid # "" THEN "id:" \o tid
                ELSE IF name # "" THEN "name:" \o name
                ELSE ""
    IN  IF base # "" THEN league \o ":" \o base
        ELSE league \o ":row" \o ToString(i - 1)

\* df.drop_duplicates(subset=["_dedupe_key"]) on the first n rows: of the
\* rows with one key the first is kept
RECURSIVE drop_duplicates(_, _)
drop_duplicates(df, n) ==
    IF n = 0 THEN <<>>
    ELSE IF \E j \in 1..(n - 1) : key_row(df, j) = key_row(df, n)
         THEN drop_duplicates(df, n - 1)
         ELSE Append(drop_duplicates(df, n - 1), df[n])

\* dedupe_merge(existing, new_df)
dedupe_merge(existing, new) ==
    IF new = <<>> THEN (IF existing.none THEN <<>> ELSE existing.rows)
    ELSE IF existing.none \/ existing.rows = <<>> THEN new
    ELSE drop_duplicates(existing.rows \o new, Len(existing.rows \o new))

\* cast_all_to_str(df): NaN becomes ''
cast_all_to_str(df) ==
    [i \in 1..Len(df) |-> [c \in Columns |-> IF df[i][c] = NaN THEN "" ELSE df[i][c]]]

\* pd.read_xml(path): an empty element is read as NaN
read_xml(rows) ==
    [i \in 1..Len(rows) |-> [c \in Columns |-> IF rows[i][c] = "" THEN NaN ELSE rows[i][c]]]

\* read_existing_xml(XML_FILE) when the file exists and parses
MakerReadExisting ==
    /\ OnlyMaker
    /\ k_pc = "read"
    /\ teams_xml.exists /\ teams_xml.readable
    /\ existing_df' = [none |-> FALSE, rows |-> read_xml(teams_xml.rows)]
    /\ k_pc' = "merge"
    /\ UNCHANGED <<teams_xml, new_df, merged_df, fs_ops>>

\* read_existing_xml(XML_FILE) when there is no file: None
MakerNoExisting ==
    /\ OnlyMaker
    /\ k_pc = "read"
    /\ ~teams_xml.exists
    /\ existing_df' = [none |-> TRUE, rows |-> <<>>]
    /\ k_pc' = "merge"
    /\ UNCHANGED <<teams_xml, new_df, merged_df, fs_ops>>

\* read_existing_xml(XML_FILE) when pd.read_xml raises: a warning, None
MakerReadFails ==
    /\ OnlyMaker
    /\ k_pc = "read"
    /\ teams_xml.exists /\ ~teams_xml.readable
    /\ existing_df' = [none |-> TRUE, rows |-> <<>>]
    /\ k_pc' = "merge"
    /\ UNCHANGED <<teams_xml, new_df, merged_df, fs_ops>>

\* merged = dedupe_merge(existing_df, new_df)
MakerMerge ==
    /\ OnlyMaker
    /\ k_pc = "merge"
    /\ merged_df' = dedupe_merge(existing_df, new_df)
    /\ k_pc' = "write"
    /\ UNCHANGED <<teams_xml, new_df, existing_df, fs_ops>>

\* safe = cast_all_to_str(merged); safe.to_csv(CSV_FILE); safe.to_xml(XML_FILE).
\* teams.csv and teams.xml are written by the same runs, so one exists when
\* the other does.
MakerWrite ==
    /\ OnlyMaker
    /\ k_pc = "write"
    /\ fs_ops' = fs_ops \o
         <<[op |-> "write", path |-> CSV_FILE, existed |-> teams_xml.exists],
           [op |-> "write", path |-> XML_FILE, existed |-> teams_xml.exists]>>
    /\ teams_xml' = [exists |-> TRUE, readable |-> TRUE,
                     rows |-> cast_all_to_str(merged_df)]
    /\ k_pc' = "done"
    /\ UNCHANGED <<new_df, existing_df, merged_df>>

\* the identity columns a fetched team row may carry: league NFL with or
\* without uid, id and displayName, and a CFB row
TeamRows(color) ==
    {[league_marker |-> "NFL", uid |-> u, id |-> i, displayName |-> n, color |-> color] :
        u \in {NaN, "u1"}, i \in {NaN, "i1", "i2"}, n \in {NaN, "A"}}
    \cup {[league_marker |-> "CFB", uid |-> "u1", id |-> "i1", displayName |-> "A",
           color |-> color]}

\* the frames of n rows
Frames(rows, n) == [1..n -> rows]

\* The fresh fetch has at least one row, of color "new"; teams.xml is
\* absent, unreadable, or holds the rows an earlier run wrote (cast to
\* strings, color "old").  Prior and fresh rows together are at most MaxRows.
InitMakerVars ==
    /\ k_pc = "read"
    /\ existing_df = [none |-> TRUE, rows |-> <<>>]
    /\ merged_df = <<>>
    /\ fs_ops = <<>>
    /\ \E e \in 0..(MaxRows - 1) : \E n \in 1..(MaxRows - e) :
         /\ new_df \in Frames(TeamRows("new"), n)
         /\ \/ /\ e > 0
               /\ \E old \in Frames(TeamRows("old"), e) :
                    teams_xml = [exists |-> TRUE, readable |-> TRUE,
                                 rows |-> cast_all_to_str(old)]
            \/ /\ e = 0
               /\ teams_xml \in {[exists |-> FALSE, readable |-> FALSE, rows |-> <<>>],
                                 [exists |-> TRUE, readable |-> FALSE, rows |-> <<>>]}

\* maker.py is not run
MakerOff ==
    /\ k_pc = "off"
    /\ teams_xml = [exists |-> FALSE, readable |-> FALSE, rows |-> <<>>]
    /\ new_df = <<>>
    /\ existing_df = [none |-> TRUE, rows |-> <<>>]
    /\ merged_df = <<>>
    /\ fs_ops = <<>>

(***************************************************************************)
(* 2025_nfl_schedule_espn.py: run(), after the events were processed       *)
(***************************************************************************)
\* run() touches nothing of the other scripts
OnlyRun == UNCHANGED <<gvars, cvars, wvars, mvars, kvars, nvars, pvars, dvars, tvars, xvars, fvars, avars, bvars, ivars>>

JsonName == "2025_nfl_schedule.json"
XmlName == "2025_nfl_schedule.xml"

\* load_existing_data(filepath): the games of the file, [] when the file
\* is missing or cannot be loaded
load_existing_data(file) ==
    IF file.exists /\ file.readable THEN file.games ELSE <<>>

\* convert_to_xml(games): one <game> element per game, with the game's id,
\* name, season and teams (last_updated is not written)
convert_to_xml(games) ==
    [i \in 1..Len(games) |->
       [id |-> games[i].id, name |-> games[i].name, season |-> games[i].season,
        teams |-> games[i].teams]]

\* save_json, up to final_data: load the prior games and merge
RunSaveJson ==
    /\ OnlyRun
    /\ r_pc = "save_json"
    /\ final_games' =
         IF load_existing_data(json_file) # <<>>
         THEN merge_game_data(load_existing_data(json_file), processed_games)
         ELSE processed_games
    /\ r_pc' = "json_backup"
    /\ UNCHANGED <<processed_games, json_file, xml_file, backups>>

\* save_json: if os.path.exists(full_path): shutil.copy2(full_path, backup_path)
JsonBackup ==
    /\ OnlyRun
    /\ r_pc = "json_backup"
    /\ json_file.exists
    /\ backups' = backups \cup {JsonName}
    /\ r_pc' = "json_write"
    /\ UNCHANGED <<processed_games, json_file, xml_file, final_games>>

\* save_json: shutil.copy2 raises, a warning is printed and the save goes on
JsonBackupFails ==
    /\ OnlyRun
    /\ r_pc = "json_backup"
    /\ json_file.exists
    /\ r_pc' = "json_write"
    /\ UNCHANGED <<processed_games, json_file, xml_file, final_games, backups>>

\* save_json: there is no file to back up
JsonNoBackup ==
    /\ OnlyRun
    /\ r_pc = "json_backup"
    /\ ~json_file.exists
    /\ r_pc' = "json_write"
    /\ UNCHANGED <<processed_games, json_file, xml_file, final_games, backups>>

\* json.dump(final_data, f), then run() goes on to convert_to_xml
JsonWrite ==
    /\ OnlyRun
    /\ r_pc = "json_write"
    /\ json_file' = [exists |-> TRUE, readable |-> TRUE, games |-> final_games]
    /\ r_pc' = "xml_backup"
    /\ UNCHANGED <<processed_games, xml_file, final_games, backups>>

\* save_xml: if os.path.exists(full_path): shutil.copy2(full_path, backup_path)
XmlBackup ==
    /\ OnlyRun
    /\ r_pc = "xml_backup"
    /\ xml_file.exists
    /\ backups' = backups \cup {XmlName}
    /\ r_pc' = "xml_write"
    /\ UNCHANGED <<processed_games, json_file, xml_file, final_games>>

\* save_xml: shutil.copy2 raises, a warning is printed and the save goes on
XmlBackupFails ==
    /\ OnlyRun
    /\ r_pc = "xml_backup"
    /\ xml_file.exists
    /\ r_pc' = "xml_write"
    /\ UNCHANGED <<processed_games, json_file, xml_file, final_games, backups>>

\* save_xml: there is no file to back up
XmlNoBackup ==
    /\ OnlyRun
    /\ r_pc = "xml_backup"
    /\ ~xml_file.exists
    /\ r_pc' = "xml_write"
    /\ UNCHANGED <<processed_games, json_file, xml_file, final_games, backups>>

\* xml_root = self.convert_to_xml(processed_games); save_xml writes it
XmlWrite ==
    /\ OnlyRun
    /\ r_pc = "xml_write"
    /\ xml_file' = [exists |-> TRUE, games |-> convert_to_xml(processed_games)]
    /\ r_pc' = "done"
    /\ UNCHANGED <<processed_games, json_file, final_games, backups>>

\* run() reaches save_json with at least one processed game.  The JSON file
\* of an earlier run is absent, unreadable, or holds games; the XML file of
\* an earlier run is absent or present.
InitRunVars ==
    /\ r_pc = "save_json"
    /\ processed_games \in SeqsUpTo(PlainGames, 1, MaxGames)
    /\ \/ json_file \in {[exists |-> e, readable |-> FALSE, games |-> <<>>] :
                           e \in BOOLEAN}
       \/ \E games \in SeqsUpTo(PlainGames, 0, MaxGames) :
            json_file = [exists |-> TRUE, readable |-> TRUE, games |-> games]
    /\ xml_file \in {[exists |-> e, games |-> <<>>] : e \in BOOLEAN}
    /\ final_games = <<>>
    /\ backups = {}

\* run() is not run
RunOff ==
    /\ r_pc = "off"
    /\ processed_games = <<>>
    /\ json_file = [exists |-> FALSE, readable |-> FALSE, games |-> <<>>]
    /\ xml_file = [exists |-> FALSE, games |-> <<>>]
    /\ final_games = <<>>
    /\ backups = {}

(***************************************************************************)
(* schedule.py normalize_conference_name, archive/schedule.py              *)
(* normalize_conf.  A label is the sequence of its characters.             *)
(***************************************************************************)
\* normalizing a label touches nothing of the other scripts
OnlyNorm == UNCHANGED <<gvars, cvars, wvars, mvars, kvars, rvars, pvars, dvars, tvars, xvars, fvars, avars, bvars, ivars>>

Min(S) == CHOOSE x \in S : \A y \in S : x <= y

UpperCase ==
    <<"A", "B", "C", "D", "E", "F", "G", "H", "I", "J", "K", "L", "M",
      "N", "O", "P", "Q", "R", "S", "T", "U", "V", "W", "X", "Y", "Z">>

LowerCase ==
    <<"a", "b", "c", "d", "e", "f", "g", "h", "i", "j", "k", "l", "m",
      "n", "o", "p", "q", "r", "s", "t", "u", "v", "w", "x", "y", "z">>

\* s.lower()
lower(s) ==
    [i \in 1..Len(s) |->
       IF \E k \in 1..Len(UpperCase) : UpperCase[k] = s[i]
       THEN LowerCase[CHOOSE k \in 1..Len(UpperCase) : UpperCase[k] = s[i]]
       ELSE s[i]]

\* s.strip()
strip(s) ==
    LET inked == {i \in 1..Len(s) : s[i] # " "}
    IN  IF inked = {} THEN <<>> ELSE SubSeq(s, Min(inked), Max(inked))

\* p in s, for strings
Contains(s, p) ==
    \E i \in 1..(Len(s) - Len(p) + 1) : SubSeq(s, i, i + Len(p) - 1) = p

\* any(k in n for k in keys)
AnyKeyIn(keys, n) == \E k \in 1..Len(keys) : Contains(n, keys[k])

IndependentLabel == <<"I", "n", "d", "e", "p", "e", "n", "d", "e", "n", "t">>

\* the mapping list of normalize_conf, in list order
Mapping ==
  <<
     [keys |-> <<<<"s", "o", "u", "t", "h", "e", "a", "s", "t", "e", "r", "n">>,
                <<"s", "e", "c">>>>,
      label |-> <<"S", "E", "C">>],  \* SEC
     [keys |-> <<<<"b", "i", "g", " ", "t", "e", "n">>,
                <<"b", "i", "g", " ", "1", "0">>,
                <<"b", "1", "g">>>>,
      label |-> <<"B", "i", "g", " ", "T", "e", "n">>],  \* Big Ten
     [keys |-> <<<<"a", "t", "l", "a", "n", "t", "i", "c", " ", "c", "o", "a", "s", "t">>,
                <<"a", "c", "c">>>>,
      label |-> <<"A", "C", "C">>],  \* ACC
     [keys |-> <<<<"b", "i", "g", " ", "1", "2">>,
                <<"b", "i", "g", " ", "t", "w", "e", "l", "v", "e">>>>,
      label |-> <<"B", "i", "g", " ", "1", "2">>],  \* Big 12
     [keys |-> <<<<"p", "a", "c", "-", "1", "2">>,
                <<"p", "a", "c", " ", "1", "2">>,
                <<"p", "a", "c", "i", "f", "i", "c", "-", "1", "2">>,
                <<"p", "a", "c", "i", "f", "i", "c", " ", "1", "2">>>>,
      label |-> <<"P", "a", "c", "-", "1", "2">>],  \* Pac-12
     [keys |-> <<<<"a", "m", "e", "r", "i", "c", "a", "n", " ", "a", "t", "h", "l", "e", "t", "i", "c">>,
                <<"a", "a", "c">>,
                <<"t", "h", "e", " ", "a", "m", "e", "r", "i", "c", "a", "n">>,
                <<"a", "m", "e", "r", "i", "c", "a", "n", " ", "c", "o", "n", "f", "e", "r", "e", "n", "c", "e">>>>,
      label |-> <<"A", "m", "e", "r", "i", "c", "a", "n", " ", "A", "t", "h", "l", "e", "t", "i", "c", " ", "C", "o", "n", "f", "e", "r", "e", "n", "c", "e">>],  \* American Athletic Conference
     [keys |-> <<<<"m", "o", "u", "n", "t", "a", "i", "n", " ", "w", "e", "s", "t">>,
                <<"m", "w", "c">>>>,
      label |-> <<"M", "o", "u", "n", "t", "a", "i", "n", " ", "W", "e", "s", "t">>],  \* Mountain West
     [keys |-> <<<<"c", "o", "n", "f", "e", "r", "e", "n", "c", "e", " ", "u", "s", "a">>,
                <<"c", "-", "u", "s", "a">>,
                <<"c", "u", "s", "a">>>>,
      label |-> <<"C", "o", "n", "f", "e", "r", "e", "n", "c", "e", " ", "U", "S", "A">>],  \* Conference USA
     [keys |-> <<<<"m", "i", "d", "-", "a", "m", "e", "r", "i", "c", "a", "n">>,
                <<"m", "a", "c">>>>,
      label |-> <<"M", "A", "C">>],  \* MAC
     [keys |-> <<<<"s", "u", "n", " ", "b", "e", "l", "t">>>>,
      label |-> <<"S", "u", "n", " ", "B", "e", "l", "t">>],  \* Sun Belt
     [keys |-> <<<<"i", "v", "y">>>>,
      label |-> <<"I", "v", "y", " ", "L", "e", "a", "g", "u", "e">>],  \* Ivy League
     [keys |-> <<<<"p", "a", "t", "r", "i", "o", "t">>>>,
      label |-> <<"P", "a", "t", "r", "i", "o", "t", " ", "L", "e", "a", "g", "u", "e">>],  \* Patriot League
     [keys |-> <<<<"c", "o", "l", "o", "n", "i", "a", "l", " ", "a", "t", "h", "l", "e", "t", "i", "c">>,
                <<"c", "a", "a">>>>,
      label |-> <<"C", "o", "l", "o", "n", "i", "a", "l", " ", "A", "t", "h", "l", "e", "t", "i", "c", " ", "A", "s", "s", "o", "c", "i", "a", "t", "i", "o", "n">>],  \* Colonial Athletic Association
     [keys |-> <<<<"b", "i", "g", " ", "s", "k", "y">>>>,
      label |-> <<"B", "i", "g", " ", "S", "k", "y">>],  \* Big Sky
     [keys |-> <<<<"m", "i", "s", "s", "o", "u", "r", "i", " ", "v", "a", "l", "l", "e", "y">>,
                <<"m", "v", "f", "c">>>>,
      label |-> <<"M", "i", "s", "s", "o", "u", "r", "i", " ", "V", "a", "l", "l", "e", "y", " ", "F", "o", "o", "t", "b", "a", "l", "l", " ", "C", "o", "n", "f", "e", "r", "e", "n", "c", "e">>],  \* Missouri Valley Football Conference
     [keys |-> <<<<"s", "o", "u", "t", "h", "l", "a", "n", "d">>>>,
      label |-> <<"S", "o", "u", "t", "h", "l", "a", "n", "d", " ", "C", "o", "n", "f", "e", "r", "e", "n", "c", "e">>],  \* Southland Conference
     [keys |-> <<<<"o", "h", "i", "o", " ", "v", "a", "l", "l", "e", "y">>,
                <<"o", "v", "c">>>>,
      label |-> <<"O", "h", "i", "o", " ", "V", "a", "l", "l", "e", "y", " ", "C", "o", "n", "f", "e", "r", "e", "n", "c", "e">>],  \* Ohio Valley Conference
     [keys |-> <<<<"s", "o", "u", "t", "h", "e", "r", "n", " ", "c", "o", "n", "f", "e", "r", "e", "n", "c", "e">>,
                <<"s", "o", "c", "o", "n">>>>,
      label |-> <<"S", "o", "u", "t", "h", "e", "r", "n", " ", "C", "o", "n", "f", "e", "r", "e", "n", "c", "e">>],  \* Southern Conference
     [keys |-> <<<<"b", "i", "g", " ", "s", "o", "u", "t", "h">>>>,
      label |-> <<"B", "i", "g", " ", "S", "o", "u", "t", "h", " ", "C", "o", "n", "f", "e", "r", "e", "n", "c", "e">>],  \* Big South Conference
     [keys |-> <<<<"n", "o", "r", "t", "h", "e", "a", "s", "t">>,
                <<"n", "e", "c">>>>,
      label |-> <<"N", "o", "r", "t", "h", "e", "a", "s", "t", " ", "C", "o", "n", "f", "e", "r", "e", "n", "c", "e">>],  \* Northeast Conference
     [keys |-> <<<<"p", "i", "o", "n", "e", "e", "r", " ", "f", "o", "o", "t", "b", "a", "l", "l">>,
                <<"p", "i", "o", "n", "e", "e", "r">>>>,
      label |-> <<"P", "i", "o", "n", "e", "e", "r", " ", "F", "o", "o", "t", "b", "a", "l", "l", " ", "L", "e", "a", "g", "u", "e">>],  \* Pioneer Football League
     [keys |-> <<<<"m", "e", "a", "c">>>>,
      label |-> <<"M", "E", "A", "C">>],  \* MEAC
     [keys |-> <<<<"s", "w", "a", "c">>>>,
      label |-> <<"S", "W", "A", "C">>],  \* SWAC
     [keys |-> <<<<"u", "n", "i", "t", "e", "d", " ", "a", "t", "h", "l", "e", "t", "i", "c">>,
                <<"u", "a", "c">>>>,
      label |-> <<"U", "n", "i", "t", "e", "d", " ", "A", "t", "h", "l", "e", "t", "i", "c", " ", "C", "o", "n", "f", "e", "r", "e", "n", "c", "e">>],  \* United Athletic Conference
     [keys |-> <<<<"i", "n", "d", "e", "p", "e", "n", "d", "e", "n", "t">>,
                <<"i", "n", "d", "e", "p", "e", "n", "d", "e", "n", "t", "s">>,
                <<"f", "b", "s", " ", "i", "n", "d", "e", "p", "e", "n", "d", "e", "n", "t", "s">>,
                <<"f", "c", "s", " ", "i", "n", "d", "e", "p", "e", "n", "d", "e", "n", "t", "s">>>>,
      label |-> <<"I", "n", "d", "e", "p", "e", "n", "d", "e", "n", "t">>]  \* Independent
  >>

\* the if-chain of normalize_conference_name, in source order: a rule
\* applies when one of its terms is in conf_lower, or when conf_lower.strip()
\* equals one of its exact terms
Rollups ==
  <<
     [terms |-> <<<<"a", "m", "e", "r", "i", "c", "a", "n", " ", "a", "t", "h", "l", "e", "t", "i", "c">>,
                 <<"a", "m", "e", "r", "i", "c", "a", "n", " ", "c", "o", "n", "f", "e", "r", "e", "n", "c", "e">>,
                 <<"a", "a", "c">>,
                 <<"t", "h", "e", " ", "a", "m", "e", "r", "i", "c", "a", "n">>>>,
      exact |-> <<>>,
      label |-> <<"A", "m", "e", "r", "i", "c", "a", "n", " ", "A", "t", "h", "l", "e", "t", "i", "c", " ", "C", "o", "n", "f", "e", "r", "e", "n", "c", "e">>],  \* American Athletic Conference
     [terms |-> <<<<"s", "o", "u", "t", "h", "e", "a", "s", "t", "e", "r", "n">>,
                 <<"s", "e", "c">>>>,
      exact |-> <<>>,
      label |-> <<"S", "E", "C">>],  \* SEC
     [terms |-> <<<<"b", "i", "g", " ", "t", "e", "n">>,
                 <<"b", "i", "g", " ", "1", "0">>,
                 <<"b", "1", "g">>>>,
      exact |-> <<>>,
      label |-> <<"B", "i", "g", " ", "T", "e", "n">>],  \* Big Ten
     [terms |-> <<<<"a", "t", "l", "a", "n", "t", "i", "c", " ", "c", "o", "a", "s", "t">>,
                 <<"a", "c", "c">>>>,
      exact |-> <<>>,
      label |-> <<"A", "C", "C">>],  \* ACC
     [terms |-> <<<<"b", "i", "g", " ", "1", "2">>,
                 <<"b", "i", "g", " ", "t", "w", "e", "l", "v", "e">>>>,
      exact |-> <<>>,
      label |-> <<"B", "i", "g", " ", "1", "2">>],  \* Big 12
     [terms |-> <<<<"p", "a", "c", "-", "1", "2">>,
                 <<"p", "a", "c", " ", "1", "2">>,
                 <<"p", "a", "c", "i", "f", "i", "c", "-", "1", "2">>,
                 <<"p", "a", "c", "i", "f", "i", "c", " ", "1", "2">>,
                 <<"p", "a", "c">>>>,
      exact |-> <<>>,
      label |-> <<"P", "a", "c", "-", "1", "2">>],  \* Pac-12
     [terms |-> <<<<"m", "o", "u", "n", "t", "a", "i", "n", " ", "w", "e", "s", "t">>,
                 <<"m", "w", "c">>>>,
      exact |-> <<>>,
      label |-> <<"M", "o", "u", "n", "t", "a", "i", "n", " ", "W", "e", "s", "t">>],  \* Mountain West
     [terms |-> <<<<"c", "o", "n", "f", "e", "r", "e", "n", "c", "e", " ", "u", "s", "a">>,
                 <<"c", "-", "u", "s", "a">>,
                 <<"c", "u", "s", "a">>>>,
      exact |-> <<>>,
      label |-> <<"C", "o", "n", "f", "e", "r", "e", "n", "c", "e", " ", "U", "S", "A">>],  \* Conference USA
     [terms |-> <<<<"m", "i", "d", "-", "a", "m", "e", "r", "i", "c", "a", "n">>,
                 <<"m", "a", "c">>>>,
      exact |-> <<>>,
      label |-> <<"M", "A", "C">>],  \* MAC
     [terms |-> <<<<"s", "u", "n", " ", "b", "e", "l", "t">>>>,
      exact |-> <<>>,
      label |-> <<"S", "u", "n", " ", "B", "e", "l", "t">>],  \* Sun Belt
     [terms |-> <<<<"i", "v", "y">>>>,
      exact |-> <<>>,
      label |-> <<"I", "v", "y", " ", "L", "e", "a", "g", "u", "e">>],  \* Ivy League
     [terms |-> <<<<"p", "a", "t", "r", "i", "o", "t">>>>,
      exact |-> <<>>,
      label |-> <<"P", "a", "t", "r", "i", "o", "t", " ", "L", "e", "a", "g", "u", "e">>],  \* Patriot League
     [terms |-> <<<<"c", "o", "l", "o", "n", "i", "a", "l", " ", "a", "t", "h", "l", "e", "t", "i", "c">>,
                 <<"c", "a", "a">>>>,
      exact |-> <<>>,
      label |-> <<"C", "o", "l", "o", "n", "i", "a", "l", " ", "A", "t", "h", "l", "e", "t", "i", "c", " ", "A", "s", "s", "o", "c", "i", "a", "t", "i", "o", "n">>],  \* Colonial Athletic Association
     [terms |-> <<<<"b", "i", "g", " ", "s", "k", "y">>>>,
      exact |-> <<>>,
      label |-> <<"B", "i", "g", " ", "S", "k", "y">>],  \* Big Sky
     [terms |-> <<<<"m", "i", "s", "s", "o", "u", "r", "i", " ", "v", "a", "l", "l", "e", "y">>,
                 <<"m", "v", "f", "c">>>>,
      exact |-> <<>>,
      label |-> <<"M", "i", "s", "s", "o", "u", "r", "i", " ", "V", "a", "l", "l", "e", "y", " ", "F", "o", "o", "t", "b", "a", "l", "l", " ", "C", "o", "n", "f", "e", "r", "e", "n", "c", "e">>],  \* Missouri Valley Football Conference
     [terms |-> <<<<"s", "o", "u", "t", "h", "l", "a", "n", "d">>>>,
      exact |-> <<>>,
      label |-> <<"S", "o", "u", "t", "h", "l", "a", "n", "d", " ", "C", "o", "n", "f", "e", "r", "e", "n", "c", "e">>],  \* Southland Conference
     [terms |-> <<<<"o", "h", "i", "o", " ", "v", "a", "l", "l", "e", "y">>,
                 <<"o", "v", "c">>>>,
      exact |-> <<>>,
      label |-> <<"O", "h", "i", "o", " ", "V", "a", "l", "l", "e", "y", " ", "C", "o", "n", "f", "e", "r", "e", "n", "c", "e">>],  \* Ohio Valley Conference
     [terms |-> <<<<"s", "o", "u", "t", "h", "e", "r", "n", " ", "c", "o", "n", "f", "e", "r", "e", "n", "c", "e">>,
                 <<"s", "o", "c", "o", "n">>>>,
      exact |-> <<>>,
      label |-> <<"S", "o", "u", "t", "h", "e", "r", "n", " ", "C", "o", "n", "f", "e", "r", "e", "n", "c", "e">>],  \* Southern Conference
     [terms |-> <<<<"b", "i", "g", " ", "s", "o", "u", "t", "h">>>>,
      exact |-> <<>>,
      label |-> <<"B", "i", "g", " ", "S", "o", "u", "t", "h", " ", "C", "o", "n", "f", "e", "r", "e", "n", "c", "e">>],  \* Big South Conference
     [terms |-> <<<<"n", "o", "r", "t", "h", "e", "a", "s", "t", " ", "c", "o", "n", "f", "e", "r", "e", "n", "c", "e">>,
                 <<"n", "e", "c">>>>,
      exact |-> <<>>,
      label |-> <<"N", "o", "r", "t", "h", "e", "a", "s", "t", " ", "C", "o", "n", "f", "e", "r", "e", "n", "c", "e">>],  \* Northeast Conference
     [terms |-> <<<<"p", "i", "o", "n", "e", "e", "r", " ", "f", "o", "o", "t", "b", "a", "l", "l">>>>,
      exact |-> <<<<"p", "i", "o", "n", "e", "e", "r">>>>,
      label |-> <<"P", "i", "o", "n", "e", "e", "r", " ", "F", "o", "o", "t", "b", "a", "l", "l", " ", "L", "e", "a", "g", "u", "e">>],  \* Pioneer Football League
     [terms |-> <<<<"m", "e", "a", "c">>>>,
      exact |-> <<>>,
      label |-> <<"M", "E", "A", "C">>],  \* MEAC
     [terms |-> <<<<"s", "w", "a", "c">>>>,
      exact |-> <<>>,
      label |-> <<"S", "W", "A", "C">>],  \* SWAC
     [terms |-> <<<<"u", "n", "i", "t", "e", "d", " ", "a", "t", "h", "l", "e", "t", "i", "c">>,
                 <<"u", "a", "c">>>>,
      exact |-> <<>>,
      label |-> <<"U", "n", "i", "t", "e", "d", " ", "A", "t", "h", "l", "e", "t", "i", "c", " ", "C", "o", "n", "f", "e", "r", "e", "n", "c", "e">>],  \* United Athletic Conference
     [terms |-> <<<<"i", "n", "d", "e", "p", "e", "n", "d", "e", "n", "t">>>>,
      exact |-> <<>>,
      label |-> <<"I", "n", "d", "e", "p", "e", "n", "d", "e", "n", "t">>]  \* Independent
  >>

\* the labels normalize_conference_name reports as 'Independent' at once
IndependentLabels ==
    {<<"i", "n", "d", "e", "p", "e", "n", "d", "e", "n", "t">>,
     <<"i", "n", "d", "e", "p", "e", "n", "d", "e", "n", "t", "s">>,
     <<"f", "b", "s", " ", "i", "n", "d", "e", "p", "e", "n", "d", "e", "n", "t", "s">>,
     <<"f", "c", "s", " ", "i", "n", "d", "e", "p", "e", "n", "d", "e", "n", "t", "s">>}

\* a scan that reports the last rule of the list that matches
scan_mapping_last(n, i) ==
    LET hits == {j \in i..Len(Mapping) : AnyKeyIn(Mapping[j].keys, n)}
    IN  IF hits = {} THEN 0 ELSE Max(hits)

\* for keys, label in mapping: if any(k in n for k in keys): return label
\* -- the position of the rule that returns, 0 when the loop runs out
RECURSIVE scan_mapping(_, _)
scan_mapping(n, i) ==
    IF i > Len(Mapping) THEN 0
    ELSE IF AnyKeyIn(Mapping[i].keys, n) THEN i
    ELSE scan_mapping(n, i + 1)

\* normalize_conf(name)
normalize_conf(name) ==
    IF name = <<>> THEN IndependentLabel
    ELSE LET n == lower(strip(name))
             i == scan_mapping(n, 1)
         IN  IF i > 0 THEN Mapping[i].label ELSE strip(name)

\* the condition of one if of normalize_conference_name
RuleApplies(rule, conf_lower) ==
    \/ AnyKeyIn(rule.terms, conf_lower)
    \/ \E k \in 1..Len(rule.exact) : strip(conf_lower) = rule.exact[k]

\* the if-chain: the position of the if that returns, 0 when none does
RECURSIVE scan_rollups(_, _)
scan_rollups(conf_lower, i) ==
    IF i > Len(Rollups) THEN 0
    ELSE IF RuleApplies(Rollups[i], conf_lower) THEN i
    ELSE scan_rollups(conf_lower, i + 1)

\* normalize_conference_name(conf_name)
normalize_conference_name(conf_name) ==
    IF conf_name = <<>> \/ strip(lower(conf_name)) \in IndependentLabels
    THEN IndependentLabel
    ELSE LET i == scan_rollups(lower(conf_name), 1)
         IN  IF i > 0 THEN Rollups[i].label ELSE conf_name

\* the label the next application gets: the raw label, then the last result
CurrentLabel == IF n_out = <<>> THEN raw_label ELSE n_out[Len(n_out)]

\* schedule.py: conference_name = normalize_conference_name(...)
NormalizeConferenceName ==
    /\ OnlyNorm
    /\ n_fn = "normalize_conference_name"
    /\ Len(n_out) < MaxApplications
    /\ n_out' = Append(n_out, normalize_conference_name(CurrentLabel))
    /\ UNCHANGED <<n_fn, raw_label>>

\* archive/schedule.py: normalize_conf(...)
NormalizeConf ==
    /\ OnlyNorm
    /\ n_fn = "normalize_conf"
    /\ Len(n_out) < MaxApplications
    /\ n_out' = Append(n_out, normalize_conf(CurrentLabel))
    /\ UNCHANGED <<n_fn, raw_label>>

\* the canonical labels of both vocabularies
CanonicalLabels ==
    {<<"S", "E", "C">>,
     <<"B", "i", "g", " ", "T", "e", "n">>,
     <<"A", "C", "C">>,
     <<"B", "i", "g", " ", "1", "2">>,
     <<"P", "a", "c", "-", "1", "2">>,
     <<"A", "m", "e", "r", "i", "c", "a", "n", " ", "A", "t", "h", "l", "e", "t", "i", "c", " ", "C", "o", "n", "f", "e", "r", "e", "n", "c", "e">>,
     <<"M", "o", "u", "n", "t", "a", "i", "n", " ", "W", "e", "s", "t">>,
     <<"C", "o", "n", "f", "e", "r", "e", "n", "c", "e", " ", "U", "S", "A">>,
     <<"M", "A", "C">>,
     <<"S", "u", "n", " ", "B", "e", "l", "t">>,
     <<"I", "v", "y", " ", "L", "e", "a", "g", "u", "e">>,
     <<"P", "a", "t", "r", "i", "o", "t", " ", "L", "e", "a", "g", "u", "e">>,
     <<"C", "o", "l", "o", "n", "i", "a", "l", " ", "A", "t", "h", "l", "e", "t", "i", "c", " ", "A", "s", "s", "o", "c", "i", "a", "t", "i", "o", "n">>,
     <<"B", "i", "g", " ", "S", "k", "y">>,
     <<"M", "i", "s", "s", "o", "u", "r", "i", " ", "V", "a", "l", "l", "e", "y", " ", "F", "o", "o", "t", "b", "a", "l", "l", " ", "C", "o", "n", "f", "e", "r", "e", "n", "c", "e">>,
     <<"S", "o", "u", "t", "h", "l", "a", "n", "d", " ", "C", "o", "n", "f", "e", "r", "e", "n", "c", "e">>,
     <<"O", "h", "i", "o", " ", "V", "a", "l", "l", "e", "y", " ", "C", "o", "n", "f", "e", "r", "e", "n", "c", "e">>,
     <<"S", "o", "u", "t", "h", "e", "r", "n", " ", "C", "o", "n", "f", "e", "r", "e", "n", "c", "e">>,
     <<"B", "i", "g", " ", "S", "o", "u", "t", "h", " ", "C", "o", "n", "f", "e", "r", "e", "n", "c", "e">>,
     <<"N", "o", "r", "t", "h", "e", "a", "s", "t", " ", "C", "o", "n", "f", "e", "r", "e", "n", "c", "e">>,
     <<"P", "i", "o", "n", "e", "e", "r", " ", "F", "o", "o", "t", "b", "a", "l", "l", " ", "L", "e", "a", "g", "u", "e">>,
     <<"M", "E", "A", "C">>,
     <<"S", "W", "A", "C">>,
     <<"U", "n", "i", "t", "e", "d", " ", "A", "t", "h", "l", "e", "t", "i", "c", " ", "C", "o", "n", "f", "e", "r", "e", "n", "c", "e">>,
     <<"I", "n", "d", "e", "p", "e", "n", "d", "e", "n", "t">>}

\* other labels the upstream may carry: the empty label, known variants,
\* near misses and labels no rule knows
VariantLabels ==
    {<<>>,
     <<"A", "A", "C">>,
     <<"T", "h", "e", " ", "A", "m", "e", "r", "i", "c", "a", "n">>,
     <<"A", "m", "e", "r", "i", "c", "a", "n", " ", "C", "o", "n", "f", "e", "r", "e", "n", "c", "e">>,
     <<"P", "a", "c">>,
     <<"M", "i", "d", "-", "A", "m", "e", "r", "i", "c", "a", "n", " ", "C", "o", "n", "f", "e", "r", "e", "n", "c", "e">>,
     <<"S", "o", "u", "t", "h", "e", "a", "s", "t", "e", "r", "n", " ", "C", "o", "n", "f", "e", "r", "e", "n", "c", "e">>,
     <<"F", "B", "S", " ", "I", "n", "d", "e", "p", "e", "n", "d", "e", "n", "t", "s">>,
     <<"N", "o", "r", "t", "h", "e", "a", "s", "t">>,
     <<"P", "i", "o", "n", "e", "e", "r">>,
     <<"A", "S", "U", "N", "-", "W", "A", "C">>,
     <<"B", "i", "g", " ", "E", "a", "s", "t">>}

Spaces(n) == [i \in 1..n |-> " "]

\* the labels above, with up to MaxPad blanks before and after
RawLabels ==
    {Spaces(a) \o l \o Spaces(b) :
        l \in CanonicalLabels \cup VariantLabels, a \in 0..MaxPad, b \in 0..MaxPad}

InitNormVars ==
    /\ n_fn \in {"normalize_conference_name", "normalize_conf"}
    /\ raw_label \in RawLabels
    /\ n_out = <<>>

\* no label is normalized
NormOff ==
    /\ n_fn = "off"
    /\ raw_label = <<>>
    /\ n_out = <<>>

(***************************************************************************)
(* games.py: parse_event                                                   *)
(***************************************************************************)
\* parse_event touches nothing of the other scripts
OnlyParse == UNCHANGED <<gvars, cvars, wvars, mvars, kvars, rvars, nvars, dvars, tvars, xvars, fvars, avars, bvars, ivars>>

\* A JSON value is a record with its type t; a string value holds the
\* sequence v of the pieces of the string ('' is <<>>), so that "T" in s and
\* s.split("T", 1) have something to work on.  A key that is missing from a
\* dict has the value PyMissing, a null has the value PyNone.
PyMissing == [t |-> "missing", v |-> <<>>]
PyNone == [t |-> "none", v |-> <<>>]
PyStr(v) == [t |-> "str", v |-> v]

\* d.get(key, default) where x is the value under the key
GetOr(x, default) == IF x.t = "missing" THEN default ELSE x

\* d.get(key)
Get(x) == GetOr(x, PyNone)

\* x or y
PyOr(x, y) == IF x.t \in {"missing", "none"} \/ (x.t = "str" /\ x.v = <<>>) THEN y ELSE x

\* str(x)
PyStrOf(x) == IF x.t = "none" THEN PyStr(<<"None">>) ELSE x

\* piece in s
HasPiece(s, piece) == \E i \in 1..Len(s.v) : s.v[i] = piece

\* s.split(piece, 1)[1]
AfterFirst(s, piece) ==
    LET i == CHOOSE j \in 1..Len(s.v) : s.v[j] = piece /\ \A k \in 1..(j - 1) : s.v[k] # piece
    IN  PyStr(SubSeq(s.v, i + 1, Len(s.v)))

\* the empty dict {}: every key missing
EmptyTeam == [t |-> "dict", displayName |-> PyMissing, name |-> PyMissing]
EmptyStatus == [t |-> "dict", type_shortDetail |-> PyMissing, shortDetail |-> PyMissing, period |-> 0]
EmptyComp == [competitors |-> [t |-> "missing", items |-> <<>>], status |-> [EmptyStatus EXCEPT !.t = "missing"]]

\* comp = (ev.get("competitions") or [{}])[0]
FirstCompetition(competitions) ==
    IF competitions.t = "list" /\ competitions.items # <<>>
    THEN competitions.items[1]
    ELSE EmptyComp

\* comps = comp.get("competitors") or []
CompetitorsOf(comp) == IF comp.competitors.t = "list" THEN comp.competitors.items ELSE <<>>

\* nm = team.get("displayName") or team.get("name") or "", with
\* team = (c.get("team") or {})
TeamName(c) ==
    LET team == IF c.team.t = "dict" THEN c.team ELSE EmptyTeam
    IN  PyOr(PyOr(Get(team.displayName), Get(team.name)), PyStr(<<>>))

\* a rendering of the score without the `or ""`
score_str_plain(c) == PyStrOf(Get(c.score))

\* str(c.get("score") or "")
score_str(c) == PyStrOf(PyOr(Get(c.score), PyStr(<<>>)))

\* the for loop over comps: the last competitor of a side sets its name and
\* score, '' when there is none
SideOf(comps, side) == {i \in 1..Len(comps) : comps[i].homeAway = PyStr(<<side>>)}

SideName(comps, side) ==
    IF SideOf(comps, side) = {} THEN PyStr(<<>>) ELSE TeamName(comps[Max(SideOf(comps, side))])

SideScore(comps, side) ==
    IF SideOf(comps, side) = {} THEN PyStr(<<>>) ELSE score_str(comps[Max(SideOf(comps, side))])

\* ot_flag
OvertimeFlag(comp) ==
    LET status == IF comp.status.t = "dict" THEN comp.status ELSE EmptyStatus
        short_detail == PyOr(GetOr(status.type_shortDetail, PyStr(<<>>)),
                             GetOr(status.shortDetail, PyStr(<<>>)))
    IN  IF HasPiece(PyOr(short_detail, PyStr(<<>>)), "OT") \/ status.period > 4
        THEN PyStr(<<"Y">>)
        ELSE PyStr(<<>>)

OutputFields ==
    {"date", "time", "away", "home", "pts_away", "pts_home", "overtime",
     "espn_event_id", "espn_gamecast_url"}

GamecastPrefix == "https://www.espn.com/nfl/game/_/gameId/"

\* the dict parse_event returns when "T" in date_iso can be evaluated
parse_event(e) ==
    LET eid == PyStrOf(GetOr(e.id, PyStr(<<>>)))
        date_iso == GetOr(e.date, PyStr(<<>>))
        comp == FirstCompetition(e.competitions)
        comps == CompetitorsOf(comp)
    IN  [date |-> date_iso,
         time |-> IF HasPiece(date_iso, "T") THEN AfterFirst(date_iso, "T") ELSE PyStr(<<>>),
         away |-> SideName(comps, "away"),
         home |-> SideName(comps, "home"),
         pts_away |-> SideScore(comps, "away"),
         pts_home |-> SideScore(comps, "home"),
         overtime |-> OvertimeFlag(comp),
         espn_event_id |-> eid,
         espn_gamecast_url |-> IF eid.v # <<>> THEN PyStr(<<GamecastPrefix>> \o eid.v)
                               ELSE PyStr(<<>>)]

\* parse_event(ev) returns
ParseEvent ==
    /\ OnlyParse
    /\ p_pc = "parse"
    /\ GetOr(p_event.date, PyStr(<<>>)).t = "str"
    /\ parsed' = parse_event(p_event)
    /\ p_pc' = "returned"
    /\ UNCHANGED p_event

\* "T" in date_iso raises TypeError when the date is null
ParseEventRaises ==
    /\ OnlyParse
    /\ p_pc = "parse"
    /\ GetOr(p_event.date, PyStr(<<>>)).t # "str"
    /\ p_pc' = "raised"
    /\ UNCHANGED <<p_event, parsed>>

\* the competitors of the upstream: a side, a team with displayName, with
\* name only or missing, a score or none; and a competitor dict without keys
Competitors ==
    {[homeAway |-> PyStr(<<side>>), team |-> team, score |-> score] :
        side \in {"home", "away"},
        team \in {[t |-> "missing", displayName |-> PyMissing, name |-> PyMissing],
                  [t |-> "dict", displayName |-> PyStr(<<"Bills">>), name |-> PyStr(<<"Buffalo">>)],
                  [t |-> "dict", displayName |-> PyMissing, name |-> PyStr(<<"Buffalo">>)]},
        score \in {PyMissing, PyStr(<<"21">>)}}
    \cup {[homeAway |-> PyMissing,
           team |-> [t |-> "missing", displayName |-> PyMissing, name |-> PyMissing],
           score |-> PyMissing]}

Statuses ==
    {[EmptyStatus EXCEPT !.t = "missing"],
     [EmptyStatus EXCEPT !.type_shortDetail = PyStr(<<"Final", "/", "OT">>)],
     [EmptyStatus EXCEPT !.shortDetail = PyStr(<<"Final">>), !.period = 5],
     [EmptyStatus EXCEPT !.type_shortDetail = PyStr(<<"Final">>), !.period = 4]}

Competitions ==
    {[t |-> "missing", items |-> <<>>], [t |-> "none", items |-> <<>>],
     [t |-> "list", items |-> <<>>]}
    \cup {[t |-> "list", items |-> <<[competitors |-> cs, status |-> st]>>] :
            cs \in {[t |-> "missing", items |-> <<>>]}
                   \cup {[t |-> "list", items |-> items] :
                           items \in SeqsUpTo(Competitors, 0, MaxCompetitors)},
            st \in Statuses}

\* nothing was returned yet
NoRecord == [f \in OutputFields |-> PyMissing]

\* the events handed to parse_event
Events ==
    [id : {PyMissing, PyStr(<<"401">>)},
     date : {PyMissing, PyNone, PyStr(<<"2025-09-07", "T", "17:00Z">>), PyStr(<<"2025-09-07">>)},
     competitions : Competitions]

InitParseVars ==
    /\ p_pc = "parse"
    /\ p_event \in Events
    /\ parsed = NoRecord

\* parse_event is not run
ParseOff ==
    /\ p_pc = "off"
    /\ p_event = [id |-> PyMissing, date |-> PyMissing,
             competitions |-> [t |-> "missing", items |-> <<>>]]
    /\ parsed = NoRecord

(***************************************************************************)
(* 2025_nfl_schedule_espn.py: process_event_data, the $ref markers of the  *)
(* competitors of one event                                                *)
(***************************************************************************)
\* processing an event touches nothing of the other scripts
OnlyDeref == UNCHANGED <<gvars, cvars, wvars, mvars, kvars, rvars, nvars, pvars, tvars, xvars, fvars, avars, bvars, ivars>>

\* what the upstream holds for the competitor at position i
UpstreamCompetitor(i) ==
    [id |-> "c" \o ToString(i), displayName |-> "T" \o ToString(i),
     summary |-> "1-0", value |-> "21"]

\* the outcome of one fetch_event_from_url: the JSON, or None after any
\* exception (timeout, connection error, non-2xx status)
FetchOutcomes(marker) == IF marker = "ref" THEN {"ok", "failed"} ELSE {"inline"}

\* 'name': safe_extract(team_data, 'displayName') or safe_extract(team_data,
\* 'name'): '' when team_data is still the unresolved {'$ref': ...}
TeamNameOf(i, team) == IF team = "failed" THEN "" ELSE UpstreamCompetitor(i).displayName

\* team['record']: the summary of records[0], '' when its $ref was not fetched
RecordOf(i, record) == IF record = "failed" THEN "" ELSE UpstreamCompetitor(i).summary

\* team['score']: safe_extract(competitor, 'score', '0') gives the default
\* for a $ref marker, then str(score_data['value']) when it was fetched
ScoreOf(i, score) == IF score = "failed" THEN "0" ELSE UpstreamCompetitor(i).value

\* the competitor is a $ref and fetch_event_from_url returns None: continue
DerefCompetitorFails ==
    /\ OnlyDeref
    /\ d_pc = "competitors"
    /\ d_i <= Len(d_event.competitors)
    /\ d_event.competitors[d_i].competitor = "ref"
    /\ d_fetches' = Append(d_fetches, [competitor |-> "failed", team |-> "none",
                                       record |-> "none", score |-> "none"])
    /\ d_i' = d_i + 1
    /\ UNCHANGED <<d_pc, d_event, d_game, processed>>

\* the competitor is inline or was fetched: its team, record and score are
\* taken inline or dereferenced, each fetch succeeding or not, and the team
\* is appended to game['teams']
ProcessCompetitor ==
    /\ OnlyDeref
    /\ d_pc = "competitors"
    /\ d_i <= Len(d_event.competitors)
    /\ LET c == d_event.competitors[d_i] IN
       \E team \in FetchOutcomes(c.team), record \in FetchOutcomes(c.record),
          score \in FetchOutcomes(c.score) :
         /\ d_game' = [d_game EXCEPT !.teams =
                         Append(@, [id |-> UpstreamCompetitor(d_i).id,
                                    name |-> TeamNameOf(d_i, team),
                                    score |-> ScoreOf(d_i, score),
                                    record |-> RecordOf(d_i, record)])]
         /\ d_fetches' = Append(d_fetches,
                                [competitor |-> IF c.competitor = "ref" THEN "ok" ELSE "inline",
                                 team |-> team, record |-> record, score |-> score])
    /\ d_i' = d_i + 1
    /\ UNCHANGED <<d_pc, d_event, processed>>

\* the for loop over competitors is over
CompetitorsDone ==
    /\ OnlyDeref
    /\ d_pc = "competitors"
    /\ d_i > Len(d_event.competitors)
    /\ d_pc' = "filter"
    /\ UNCHANGED <<d_event, d_i, d_game, processed, d_fetches>>

\* if game['id'] or game['name'] or (game['teams'] and any(t['name'] ...))
HasActualData(g) ==
    g.id # "" \/ g.name # "" \/ \E k \in 1..Len(g.teams) : g.teams[k].name # ""

\* processed_games.append(game)
KeepGame ==
    /\ OnlyDeref
    /\ d_pc = "filter"
    /\ HasActualData(d_game)
    /\ processed' = Append(processed, d_game)
    /\ d_pc' = "done"
    /\ UNCHANGED <<d_event, d_i, d_game, d_fetches>>

\* "Skipping empty game data"
SkipGame ==
    /\ OnlyDeref
    /\ d_pc = "filter"
    /\ ~HasActualData(d_game)
    /\ d_pc' = "done"
    /\ UNCHANGED <<d_event, d_i, d_game, processed, d_fetches>>

\* a competitor as the event lists it: inline or a $ref marker, and in it
\* (once obtained) the team, the first record and the score inline or a $ref
CompetitorShapes ==
    [competitor : {"inline", "ref"}, team : {"inline", "ref"},
     record : {"inline", "ref"}, score : {"inline", "ref"}]

\* the event was obtained; it may lack id and name
InitDerefVars ==
    /\ d_pc = "competitors"
    /\ d_event \in [id : {"", "e1"}, name : {"", "A at B"},
                    competitors : SeqsUpTo(CompetitorShapes, 0, MaxCompetitors)]
    /\ d_i = 1
    /\ d_game = [id |-> d_event.id, name |-> d_event.name, teams |-> <<>>]
    /\ processed = <<>>
    /\ d_fetches = <<>>

\* no event is processed
DerefOff ==
    /\ d_pc = "off"
    /\ d_event = [id |-> "", name |-> "", competitors |-> <<>>]
    /\ d_i = 1
    /\ d_game = [id |-> "", name |-> "", teams |-> <<>>]
    /\ processed = <<>>
    /\ d_fetches = <<>>

(***************************************************************************)
(* teams.py: main, build_ncaa_records, build_nfl_records, write_xml        *)
(***************************************************************************)
\* teams.py touches nothing of the other scripts
OnlyTeams == UNCHANGED <<gvars, cvars, wvars, mvars, kvars, rvars, nvars, pvars, dvars, xvars, fvars, avars, bvars, ivars>>

\* a search that is content with any page
find_any_table(page) == TRUE

\* find_wikitable_with_conference(soup): a table, or None
find_wikitable_with_conference(page) == page.has_table

\* the script has not ended
Running == [code |-> -1, printed |-> ""]

\* except requests.HTTPError / except Exception in main: print, sys.exit(1)
Exit1(message) == [code |-> 1, printed |-> message]

\* fetch(url) raises for one of the pages whose fetch is not guarded (FBS,
\* the AC season page, FCS, nfl.com): requests.HTTPError from
\* raise_for_status, or another exception (timeout, connection)
TeamsFetchFails ==
    /\ OnlyTeams
    /\ t_pc \in {"fbs", "ac", "fcs", "nfl"}
    /\ \E message \in {"HTTP error", "Failed"} : t_exit' = Exit1(message)
    /\ t_pc' = "exit"
    /\ UNCHANGED <<fbs_page, fcs_page, ncaa, t_file, t_steps>>

\* fbs_tbl found: fbs_rows = parse_program_table(fbs_tbl)
ParseFbs ==
    /\ OnlyTeams
    /\ t_pc = "fbs"
    /\ find_wikitable_with_conference(fbs_page)
    /\ t_steps' = Append(t_steps, "fbs")
    /\ t_pc' = "ac"
    /\ UNCHANGED <<fbs_page, fcs_page, ncaa, t_file, t_exit>>

\* raise RuntimeError("Could not find FBS wikitable with a Conference column.")
FbsNoTable ==
    /\ OnlyTeams
    /\ t_pc = "fbs"
    /\ ~find_wikitable_with_conference(fbs_page)
    /\ t_exit' = Exit1("Failed: Could not find FBS wikitable with a Conference column.")
    /\ t_pc' = "exit"
    /\ UNCHANGED <<fbs_page, fcs_page, ncaa, t_file, t_steps>>

\* ac_keys = get_ac_member_keys()
AcMembers ==
    /\ OnlyTeams
    /\ t_pc = "ac"
    /\ t_steps' = Append(t_steps, "ac")
    /\ t_pc' = "sec"
    /\ UNCHANGED <<fbs_page, fcs_page, ncaa, t_file, t_exit>>

\* sec_keys from the season page, or from the FBS table when that page
\* fails or is empty; then the loop over fbs_rows keeps the SEC and AC rows.
\* A row of the page is modelled by the membership the keys give it.
SecMembersAndFbsRows ==
    /\ OnlyTeams
    /\ t_pc = "sec"
    /\ ncaa' = SelectSeq(fbs_page.rows, LAMBDA r : r \in {"SEC", "AC"})
    /\ t_steps' = Append(t_steps, "sec")
    /\ t_pc' = "fcs"
    /\ UNCHANGED <<fbs_page, fcs_page, t_file, t_exit>>

\* fcs_tbl found: the Big Sky rows are appended; build_ncaa_records returns
ParseFcs ==
    /\ OnlyTeams
    /\ t_pc = "fcs"
    /\ find_wikitable_with_conference(fcs_page)
    /\ ncaa' = ncaa \o SelectSeq(fcs_page.rows, LAMBDA r : r = "Big Sky")
    /\ t_steps' = Append(t_steps, "fcs")
    /\ t_pc' = "nfl"
    /\ UNCHANGED <<fbs_page, fcs_page, t_file, t_exit>>

\* raise RuntimeError("Could not find FCS wikitable with a Conference column.")
FcsNoTable ==
    /\ OnlyTeams
    /\ t_pc = "fcs"
    /\ ~find_wikitable_with_conference(fcs_page)
    /\ t_exit' = Exit1("Failed: Could not find FCS wikitable with a Conference column.")
    /\ t_pc' = "exit"
    /\ UNCHANGED <<fbs_page, fcs_page, ncaa, t_file, t_steps>>

\* nfl = build_nfl_records()
BuildNflRecords ==
    /\ OnlyTeams
    /\ t_pc = "nfl"
    /\ t_steps' = Append(t_steps, "nfl")
    /\ t_pc' = "write"
    /\ UNCHANGED <<fbs_page, fcs_page, ncaa, t_file, t_exit>>

\* write_xml(ncaa, nfl, "teams.xml"); main returns
WriteTeamsXml ==
    /\ OnlyTeams
    /\ t_pc = "write"
    /\ t_file' = [exists |-> TRUE, written_by |-> "this run", ncaa |-> ncaa]
    /\ t_exit' = [code |-> 0, printed |-> ""]
    /\ t_pc' = "done"
    /\ UNCHANGED <<fbs_page, fcs_page, ncaa, t_steps>>

\* a programs page: without a wikitable that has a Conference header, or
\* with one, of up to MaxPrograms rows
Pages(memberships) ==
    {[has_table |-> FALSE, rows |-> <<>>]}
    \cup {[has_table |-> TRUE, rows |-> rows] : rows \in SeqsUpTo(memberships, 0, MaxPrograms)}

\* teams.xml is absent or left by an earlier run
InitTeamsVars ==
    /\ t_pc = "fbs"
    /\ fbs_page \in Pages({"SEC", "AC", "other"})
    /\ fcs_page \in Pages({"Big Sky", "other"})
    /\ ncaa = <<>>
    /\ t_file \in {[exists |-> FALSE, written_by |-> "nobody", ncaa |-> <<>>],
                   [exists |-> TRUE, written_by |-> "an earlier run", ncaa |-> <<>>]}
    /\ t_exit = Running
    /\ t_steps = <<>>

\* teams.py is not run
TeamsOff ==
    /\ t_pc = "off"
    /\ fbs_page = [has_table |-> FALSE, rows |-> <<>>]
    /\ fcs_page = [has_table |-> FALSE, rows |-> <<>>]
    /\ ncaa = <<>>
    /\ t_file = [exists |-> FALSE, written_by |-> "nobody", ncaa |-> <<>>]
    /\ t_exit = Running
    /\ t_steps = <<>>

(***************************************************************************)
(* The serializers: games.py write_games_xml, 2025_nfl_schedule_espn.py    *)
(* convert_to_xml, maker.py cast_all_to_str                                *)
(***************************************************************************)
\* serializing touches nothing of the other scripts
OnlySer == UNCHANGED <<gvars, cvars, wvars, mvars, kvars, rvars, nvars, pvars, dvars, tvars, fvars, avars, bvars, ivars>>

\* float('nan') as a cell of a frame
PyNaN == [t |-> "nan", v |-> <<>>]

\* ElementTree writes no text for an element whose .text is None
ElementText(x) == IF x.t = "none" THEN PyStr(<<>>) ELSE x

\* games.py add(parent, tag, text): el.text = text or ""
add(text) == PyOr(text, PyStr(<<>>))

\* one emitted text value
Emitted(tag, source, text) == [tag |-> tag, source |-> source, text |-> text.v]

\* the source values of the two sides of an event: the team name and the
\* score of the last competitor of the side, missing when there is none
SideTeamSource(comps, side) ==
    IF SideOf(comps, side) = {} THEN PyMissing
    ELSE LET c == comps[Max(SideOf(comps, side))]
             team == IF c.team.t = "dict" THEN c.team ELSE EmptyTeam
         IN  PyOr(Get(team.displayName), Get(team.name))

SideScoreSource(comps, side) ==
    IF SideOf(comps, side) = {} THEN PyMissing
    ELSE comps[Max(SideOf(comps, side))].score

\* write_games_xml(games, year, out_path) for the game harvest made of the
\* event e: g = parse_event(e), g["season_type"], g["week"], then one
\* add(game, tag, g.get(tag)) per tag
write_games_xml(e) ==
    LET g == parse_event(e)
        comps == CompetitorsOf(FirstCompetition(e.competitions))
        status == FirstCompetition(e.competitions).status
    IN  {Emitted("season_type", PyStr(<<"REG">>), add(PyStr(<<"REG">>))),
         Emitted("week", PyStr(<<"1">>), add(PyStr(<<"1">>))),
         Emitted("date", e.date, add(g.date)),
         Emitted("time", e.date, add(g.time)),
         Emitted("away", SideTeamSource(comps, "away"), add(g.away)),
         Emitted("home", SideTeamSource(comps, "home"), add(g.home)),
         Emitted("pts_away", SideScoreSource(comps, "away"), add(g.pts_away)),
         Emitted("pts_home", SideScoreSource(comps, "home"), add(g.pts_home)),
         Emitted("overtime", IF status.t = "dict" THEN PyStr(<<"status">>) ELSE PyMissing,
                 add(g.overtime)),
         Emitted("espn_event_id", e.id, add(g.espn_event_id)),
         Emitted("espn_gamecast_url", e.id, add(g.espn_gamecast_url))}

\* safe_extract(data, key, default) where x is the value under the key
safe_extract(x, default) == IF x.t \in {"missing", "none"} THEN default ELSE x

\* the team dict process_event_data builds of an inline competitor
ScheduleTeam(c) ==
    LET team_data == IF c.team.t = "dict" THEN c.team ELSE EmptyTeam
    IN  [name |-> PyOr(safe_extract(team_data.displayName, PyStr(<<>>)),
                       safe_extract(team_data.name, PyStr(<<>>))),
         home_away |-> safe_extract(c.homeAway, PyStr(<<>>)),
         score |-> safe_extract(c.score, PyStr(<<"0">>))]

\* the game dict process_event_data builds of the event e: event.get(key, '')
\* keeps a null
ScheduleGame(e) ==
    LET comps == IF e.competitions.t = "list" /\ e.competitions.items # <<>>
                 THEN CompetitorsOf(e.competitions.items[1])
                 ELSE <<>>
    IN  [id |-> GetOr(e.id, PyStr(<<>>)),
         name |-> GetOr(e.name, PyStr(<<>>)),
         date |-> GetOr(e.date, PyStr(<<>>)),
         teams |-> [i \in 1..Len(comps) |-> ScheduleTeam(comps[i])],
         sources |-> comps]

\* x is truthy
PyTruthy(x) == ~(x.t \in {"missing", "none"} \/ (x.t = "str" /\ x.v = <<>>))

\* if game['id'] or game['name'] or (game['teams'] and any(t['name'] ...))
ScheduleGameKept(gm) ==
    PyTruthy(gm.id) \/ PyTruthy(gm.name)
    \/ \E k \in 1..Len(gm.teams) : PyTruthy(gm.teams[k].name)

\* convert_to_xml(games) for one game: the id and the score go through
\* str(), the other values are assigned to .text as they are.  short_name,
\* status, venue, city, state, abbreviation, location and record are
\* written as name is, the team id as the game id is.
ScheduleXmlTexts(gm) ==
    {Emitted("id", gm.id, PyStrOf(GetOr(gm.id, PyStr(<<>>)))),
     Emitted("name", gm.name, ElementText(GetOr(gm.name, PyStr(<<>>)))),
     Emitted("date", gm.date, ElementText(GetOr(gm.date, PyStr(<<>>))))}
    \cup UNION {
        LET team == gm.teams[i]
            c == gm.sources[i]
            team_data == IF c.team.t = "dict" THEN c.team ELSE EmptyTeam
        IN  {Emitted("team/name", PyOr(Get(team_data.displayName), Get(team_data.name)),
                     ElementText(GetOr(team.name, PyStr(<<>>)))),
             Emitted("team/home_away", c.homeAway,
                     ElementText(GetOr(team.home_away, PyStr(<<>>)))),
             Emitted("team/score", c.score, PyStrOf(GetOr(team.score, PyStr(<<"0">>))))}
        : i \in 1..Len(gm.teams)}

\* caster(x) of cast_all_to_str
caster(x) == IF x.t = "none" \/ x.t = "nan" THEN PyStr(<<>>) ELSE PyStrOf(x)

\* games.py: parse_event and write_games_xml
SerializeGamesXml ==
    /\ OnlySer
    /\ s_pc = "serialize" /\ s_input.fn = "write_games_xml"
    /\ GetOr(s_input.event.date, PyStr(<<>>)).t = "str"
    /\ s_texts' = write_games_xml(s_input.event)
    /\ s_pc' = "done"
    /\ UNCHANGED s_input

\* games.py: a null date makes parse_event raise TypeError, games.xml is
\* not written
GamesXmlNotWritten ==
    /\ OnlySer
    /\ s_pc = "serialize" /\ s_input.fn = "write_games_xml"
    /\ GetOr(s_input.event.date, PyStr(<<>>)).t # "str"
    /\ s_pc' = "raised"
    /\ UNCHANGED <<s_input, s_texts>>

\* 2025_nfl_schedule_espn.py: process_event_data keeps the game and
\* convert_to_xml writes it
SerializeScheduleXml ==
    /\ OnlySer
    /\ s_pc = "serialize" /\ s_input.fn = "convert_to_xml"
    /\ ScheduleGameKept(ScheduleGame(s_input.event))
    /\ s_texts' = ScheduleXmlTexts(ScheduleGame(s_input.event))
    /\ s_pc' = "done"
    /\ UNCHANGED s_input

\* 2025_nfl_schedule_espn.py: "Skipping empty game data"
ScheduleGameSkipped ==
    /\ OnlySer
    /\ s_pc = "serialize" /\ s_input.fn = "convert_to_xml"
    /\ ~ScheduleGameKept(ScheduleGame(s_input.event))
    /\ s_pc' = "done"
    /\ UNCHANGED <<s_input, s_texts>>

\* maker.py: cast_all_to_str on a frame with the one cell
SerializeCell ==
    /\ OnlySer
    /\ s_pc = "serialize" /\ s_input.fn = "cast_all_to_str"
    /\ s_texts' = {Emitted("cell", s_input.cell, caster(s_input.cell))}
    /\ s_pc' = "done"
    /\ UNCHANGED s_input

\* the events of the upstream: id, name and date present, null or missing;
\* no competition, or one with at most one competitor
SerEvents ==
    [id : {PyMissing, PyNone, PyStr(<<"401">>)},
     name : {PyMissing, PyNone, PyStr(<<"Bills at Jets">>)},
     date : {PyMissing, PyNone, PyStr(<<"2025-09-07", "T", "17:00Z">>)},
     competitions : {c \in Competitions :
                        /\ Len(c.items) <= 1
                        /\ \A i \in 1..Len(c.items) : Len(c.items[i].competitors.items) <= 1}]

NoEvent ==
    [id |-> PyMissing, name |-> PyMissing, date |-> PyMissing,
     competitions |-> [t |-> "missing", items |-> <<>>]]

InitSerVars ==
    /\ s_pc = "serialize"
    /\ s_input \in
         {[fn |-> fn, event |-> e, cell |-> PyNone] :
             fn \in {"write_games_xml", "convert_to_xml"}, e \in SerEvents}
         \cup {[fn |-> "cast_all_to_str", event |-> NoEvent, cell |-> x] :
                 x \in {PyNone, PyNaN, PyStr(<<"Bills">>)}}
    /\ s_texts = {}

\* no serializer runs
SerOff ==
    /\ s_pc = "off"
    /\ s_input = [fn |-> "none", event |-> NoEvent, cell |-> PyNone]
    /\ s_texts = {}

(***************************************************************************)
(* 2025_nfl_schedule_espn.py: process_event_data and fetch_event_from_url, *)
(* the requests issued for the $ref markers of one event                   *)
(***************************************************************************)
\* the fetches of an event touch nothing of the other scripts
OnlyRef == UNCHANGED <<gvars, cvars, wvars, mvars, kvars, rvars, nvars, pvars, dvars, tvars, xvars, avars, bvars, ivars>>

URLs == {"u1", "u2"}

\* a fetch that goes on to the $ref the fetched object carries
fetch_following_ref(url) ==
    IF f_graph[url] # "none" THEN <<url, f_graph[url]>> ELSE <<url>>

\* fetch_event_from_url(event_url): the requests it issues, one session.get
fetch_event_from_url(url) == <<url>>

\* the GETs issued for the marker in `slot` of competitor i (0: the event)
FetchesFor(slot, i, url) ==
    [k \in 1..Len(fetch_event_from_url(url)) |->
       [slot |-> slot, i |-> i, url |-> fetch_event_from_url(url)[k]]]

\* the GETs for a value that is inline or a marker
FetchesIfRef(slot, i, v) == IF v = "inline" THEN <<>> ELSE FetchesFor(slot, i, v)

\* isinstance(event, dict) and '$ref' not in event: no fetch
RefEventInline ==
    /\ OnlyRef
    /\ f_pc = "event"
    /\ f_event.event = "inline"
    /\ f_pc' = "competitors"
    /\ UNCHANGED <<f_event, f_graph, f_i, f_fetched>>

\* '$ref' in event: event = fetch_event_from_url(ref_url); what it returns
\* is processed as the event, whether or not it carries a $ref itself
RefFetchEvent ==
    /\ OnlyRef
    /\ f_pc = "event"
    /\ f_event.event # "inline"
    /\ f_fetched' = f_fetched \o FetchesFor("event", 0, f_event.event)
    /\ f_pc' = "competitors"
    /\ UNCHANGED <<f_event, f_graph, f_i>>

\* '$ref' in event and fetch_event_from_url returns None: continue
RefFetchEventFails ==
    /\ OnlyRef
    /\ f_pc = "event"
    /\ f_event.event # "inline"
    /\ f_fetched' = f_fetched \o FetchesFor("event", 0, f_event.event)
    /\ f_pc' = "done"
    /\ UNCHANGED <<f_event, f_graph, f_i>>

\* the competitor is a $ref and fetch_event_from_url returns None: continue
RefCompetitorFails ==
    /\ OnlyRef
    /\ f_pc = "competitors"
    /\ f_i <= Len(f_event.competitors)
    /\ f_event.competitors[f_i].competitor # "inline"
    /\ f_fetched' = f_fetched \o FetchesFor("competitor", f_i, f_event.competitors[f_i].competitor)
    /\ f_i' = f_i + 1
    /\ UNCHANGED <<f_pc, f_event, f_graph>>

\* one iteration of the for loop over competitors: the competitor, its
\* team, its first record and its score are fetched when they are markers.
\* A failed fetch of team, record or score changes no later fetch.
RefCompetitor ==
    /\ OnlyRef
    /\ f_pc = "competitors"
    /\ f_i <= Len(f_event.competitors)
    /\ LET c == f_event.competitors[f_i] IN
       f_fetched' = f_fetched \o FetchesIfRef("competitor", f_i, c.competitor)
                              \o FetchesIfRef("team", f_i, c.team)
                              \o FetchesIfRef("record", f_i, c.record)
                              \o FetchesIfRef("score", f_i, c.score)
    /\ f_i' = f_i + 1
    /\ UNCHANGED <<f_pc, f_event, f_graph>>

\* the for loop over competitors is over; the game is kept or skipped
RefCompetitorsDone ==
    /\ OnlyRef
    /\ f_pc = "competitors"
    /\ f_i > Len(f_event.competitors)
    /\ f_pc' = "done"
    /\ UNCHANGED <<f_event, f_graph, f_i, f_fetched>>

\* a competitor as listed: itself, its team, its first record and its score
\* inline or a marker to a URL
CompetitorRefs ==
    [competitor : {"inline", "u1"}, team : {"inline", "u2"},
     record : {"inline", "u1"}, score : {"inline", "u2"}]

\* what the upstream serves at the URLs: objects without a $ref, objects
\* that refer to themselves, objects that refer to each other
Graphs ==
    {[u \in URLs |-> "none"],
     [u \in URLs |-> u],
     [u \in URLs |-> IF u = "u1" THEN "u2" ELSE "u1"]}

InitRefVars ==
    /\ f_pc = "event"
    /\ f_event \in [event : {"inline", "u2"},
                    competitors : SeqsUpTo(CompetitorRefs, 0, MaxCompetitors)]
    /\ f_graph \in Graphs
    /\ f_i = 1
    /\ f_fetched = <<>>

\* no event is processed
RefOff ==
    /\ f_pc = "off"
    /\ f_event = [event |-> "inline", competitors |-> <<>>]
    /\ f_graph = [u \in URLs |-> "none"]
    /\ f_i = 1
    /\ f_fetched = <<>>

(***************************************************************************)
(* 2025_nfl_schedule_espn.py: main and NFLScheduleScraper.run              *)
(***************************************************************************)
\* a run of the scraper's main touches nothing of the other scripts
OnlyAll == UNCHANGED <<gvars, cvars, wvars, mvars, kvars, rvars, nvars, pvars, dvars, tvars, xvars, fvars, bvars, ivars>>

FetchMethods == <<"events", "weeks", "dates", "alternative">>

RawDebugName == "2025_nfl_schedule_raw_debug.json"

\* a condition that does not look at what was fetched so far
should_try_always(method, m, events) == method = "all" \/ method = m

\* if not events and (method == 'all' or method == m)
should_try(method, m, events) == events = <<>> /\ (method = "all" \/ method = m)

\* what the fetch method m returns: a list of raw events, [] when the
\* upstream has nothing for it or every request of it failed
Fetched(m) == IF a_upstream.events[m] THEN <<[from |-> m]>> ELSE <<>>

\* current_events = self.fetch_scoreboard_current(): its result is not used
FetchScoreboardCurrent ==
    /\ OnlyAll
    /\ a_pc = "current"
    /\ a_pc' = "events"
    /\ UNCHANGED <<a_method, a_upstream, a_events, a_games, a_calls, a_written, a_exit>>

\* if method == 'all' or method == 'events': fetch_all_events_detailed()
TryEvents ==
    /\ OnlyAll
    /\ a_pc = "events"
    /\ IF should_try(a_method, "events", <<>>)
       THEN /\ a_calls' = Append(a_calls, "events")
            /\ a_events' = Fetched("events")
       ELSE UNCHANGED <<a_calls, a_events>>
    /\ a_pc' = "weeks"
    /\ UNCHANGED <<a_method, a_upstream, a_games, a_written, a_exit>>

\* if not events and (...'weeks'): fetch_week_by_week_detailed()
TryWeeks ==
    /\ OnlyAll
    /\ a_pc = "weeks"
    /\ IF should_try(a_method, "weeks", a_events)
       THEN /\ a_calls' = Append(a_calls, "weeks")
            /\ a_events' = Fetched("weeks")
       ELSE UNCHANGED <<a_calls, a_events>>
    /\ a_pc' = "dates"
    /\ UNCHANGED <<a_method, a_upstream, a_games, a_written, a_exit>>

\* if not events and (...'dates'): fetch_by_date_range()
TryDates ==
    /\ OnlyAll
    /\ a_pc = "dates"
    /\ IF should_try(a_method, "dates", a_events)
       THEN /\ a_calls' = Append(a_calls, "dates")
            /\ a_events' = Fetched("dates")
       ELSE UNCHANGED <<a_calls, a_events>>
    /\ a_pc' = "alternative"
    /\ UNCHANGED <<a_method, a_upstream, a_games, a_written, a_exit>>

\* if not events and (...'alternative'): try_alternative_endpoints()
TryAlternative ==
    /\ OnlyAll
    /\ a_pc = "alternative"
    /\ IF should_try(a_method, "alternative", a_events)
       THEN /\ a_calls' = Append(a_calls, "alternative")
            /\ a_events' = Fetched("alternative")
       ELSE UNCHANGED <<a_calls, a_events>>
    /\ a_pc' = "fetched"
    /\ UNCHANGED <<a_method, a_upstream, a_games, a_written, a_exit>>

\* if not events: return False; main: sys.exit(1)
NoDataFetched ==
    /\ OnlyAll
    /\ a_pc = "fetched"
    /\ a_events = <<>>
    /\ a_exit' = [returned |-> "False", code |-> 1]
    /\ a_pc' = "exited"
    /\ UNCHANGED <<a_method, a_upstream, a_events, a_games, a_calls, a_written>>

\* processed_games = self.process_event_data(events)
ProcessEventData ==
    /\ OnlyAll
    /\ a_pc = "fetched"
    /\ a_events # <<>>
    /\ a_games' = IF a_upstream.processable THEN a_events ELSE <<>>
    /\ a_pc' = "processed"
    /\ UNCHANGED <<a_method, a_upstream, a_events, a_calls, a_written, a_exit>>

\* if not processed_games: the raw events are dumped to
\* 2025_nfl_schedule_raw_debug.json; return False; main: sys.exit(1)
NoGamesProcessed ==
    /\ OnlyAll
    /\ a_pc = "processed"
    /\ a_games = <<>>
    /\ a_written' = a_written \cup {RawDebugName}
    /\ a_exit' = [returned |-> "False", code |-> 1]
    /\ a_pc' = "exited"
    /\ UNCHANGED <<a_method, a_upstream, a_events, a_games, a_calls>>

\* save_json, convert_to_xml, save_xml; return True; main returns
SaveJsonAndXml ==
    /\ OnlyAll
    /\ a_pc = "processed"
    /\ a_games # <<>>
    /\ a_written' = a_written \cup {JsonName, XmlName}
    /\ a_exit' = [returned |-> "True", code |-> 0]
    /\ a_pc' = "exited"
    /\ UNCHANGED <<a_method, a_upstream, a_events, a_games, a_calls>>

\* main(): method is 'all' or one of the four names; the upstream has
\* events for any of the methods or for none
InitAllVars ==
    /\ a_pc = "current"
    /\ a_method \in {"all", "events", "weeks", "dates", "alternative"}
    /\ a_upstream \in [events : [{"events", "weeks", "dates", "alternative"} -> BOOLEAN],
                       processable : BOOLEAN]
    /\ a_events = <<>>
    /\ a_games = <<>>
    /\ a_calls = <<>>
    /\ a_written = {}
    /\ a_exit = [returned |-> "-", code |-> -1]

\* the scraper is not run
AllOff ==
    /\ a_pc = "off"
    /\ a_method = "all"
    /\ a_upstream = [events |-> [m \in {"events", "weeks", "dates", "alternative"} |-> FALSE],
                     processable |-> FALSE]
    /\ a_events = <<>>
    /\ a_games = <<>>
    /\ a_calls = <<>>
    /\ a_written = {}
    /\ a_exit = [returned |-> "-", code |-> -1]

(***************************************************************************)
(* schedule.py: build_conference_index                                     *)
(***************************************************************************)
\* building the index touches nothing of the other scripts
OnlyIdx == UNCHANGED <<gvars, cvars, wvars, mvars, kvars, rvars, nvars, pvars, dvars, tvars, xvars, fvars, avars, ivars>>

\* A name is the sequence of its pieces; <<>> is a name that is None or ''.
NoName == <<>>

\* the indicators of conf_indicators that occur in the names used here
conf_indicators == {"Conference", "SEC", "Sun Belt", "Big "}

\* looks_like_conference(name): some indicator occurs in the name
looks_like_conference(name) == \E i \in 1..Len(name) : name[i] \in conf_indicators

\* idx[str(tid)] = node_name: the name stored for a team
stored_name(node_name, conf_here) == node_name

\* walk(node, current_conf) on the index idx, with the loop over the
\* node's children done from child k on
RECURSIVE walk(_, _, _), walk_children(_, _, _, _)
walk(node, current_conf, idx) ==
    LET node_name == node.name
        conf_here == IF node_name # NoName /\ looks_like_conference(node_name)
                     THEN node_name
                     ELSE current_conf
        mapped == IF conf_here # NoName THEN node.entries ELSE {}
        idx1 == [t \in DOMAIN idx \cup mapped |->
                   IF t \in mapped THEN stored_name(node_name, conf_here) ELSE idx[t]]
    IN  walk_children(node.children, 1, conf_here, idx1)

walk_children(children, k, conf_here, idx) ==
    IF k > Len(children) THEN idx
    ELSE walk_children(children, k + 1, conf_here, walk(children[k], conf_here, idx))

\* an index without teams
EmptyIndex == [t \in {} |-> NoName]

\* walk(data), then walk(child) for each child of data
build_conference_index(data) ==
    walk_children(data.children, 1, NoName, walk(data, NoName, EmptyIndex))

\* the standings request succeeds: the tree is walked
BuildIndex ==
    /\ OnlyIdx
    /\ b_pc = "build"
    /\ b_idx' = build_conference_index(standings)
    /\ b_pc' = "done"
    /\ UNCHANGED standings

\* requests.get(...).json() raises: return idx, which is empty
BuildIndexFails ==
    /\ OnlyIdx
    /\ b_pc = "build"
    /\ b_idx' = EmptyIndex
    /\ b_pc' = "failed"
    /\ UNCHANGED standings

\* names of nodes: none, a conference, a division, a division that
\* carries the name of its conference, a region
NodeNames ==
    {NoName, <<"SEC">>, <<"East">>, <<"Sun Belt", " - ", "East">>, <<"FBS (I-A)">>}

TeamIds == {"333", "61"}

\* the standings tree: a root without standings, under it a group, and
\* under the group at most one subgroup; a group lists teams or not
Subgroups == [name : NodeNames, entries : SUBSET TeamIds, children : {<<>>}]

Groups ==
    [name : NodeNames, entries : SUBSET TeamIds,
     children : {<<>>} \cup {<<s>> : s \in Subgroups}]

StandingsTrees ==
    [name : {NoName, <<"FBS (I-A)">>}, entries : {{}},
     children : {<<g>> : g \in Groups}]

InitIdxVars ==
    /\ b_pc = "build"
    /\ standings \in StandingsTrees
    /\ b_idx = EmptyIndex

\* no index is built
IdxOff ==
    /\ b_pc = "off"
    /\ standings = [name |-> NoName, entries |-> {}, children |-> <<>>]
    /\ b_idx = EmptyIndex

(***************************************************************************)
(* 2025_nfl_schedule_espn.py: merge_game_data applied to its own result    *)
(***************************************************************************)
\* merging twice touches nothing of the other scripts
OnlyTwice == UNCHANGED <<gvars, cvars, wvars, mvars, kvars, rvars, nvars, pvars, dvars, tvars, xvars, fvars, avars, bvars>>

\* merged = merge_game_data(E, N): the records of E are copied before they
\* are updated (existing_game.copy(), existing_teams[team_id].copy()), so
\* E and N are as they were
MergeFirst ==
    /\ OnlyTwice
    /\ i_pc = "first"
    /\ i_first' = merge_game_data(i_existing, i_new)
    /\ i_pc' = "second"
    /\ UNCHANGED <<i_existing, i_new, i_second>>

\* merge_game_data(merged, N)
MergeSecond ==
    /\ OnlyTwice
    /\ i_pc = "second"
    /\ i_second' = merge_game_data(i_first, i_new)
    /\ i_pc' = "done"
    /\ UNCHANGED <<i_existing, i_new, i_first>>

\* the ids of the list are non-empty and no two are the same
UniqueIds(games) ==
    /\ \A i \in 1..Len(games) : games[i].id # ""
    /\ \A i, j \in 1..Len(games) : games[i].id = games[j].id => i = j

\* E and N have unique, non-empty ids.  Either one existing game meets one
\* new game, with every combination of field values, or lists of up to
\* MaxGames plain games meet.
InitTwiceVars ==
    /\ i_pc = "first"
    /\ i_first = <<>>
    /\ i_second = <<>>
    /\ \/ /\ i_existing \in SeqsUpTo(ExistingGameRecs, 1, 1)
          /\ i_new \in SeqsUpTo(NewGameRecs, 1, 1)
       \/ /\ i_existing \in SeqsUpTo(PlainGames, 0, MaxGames)
          /\ i_new \in SeqsUpTo(PlainGames, 0, MaxGames)
    /\ UniqueIds(i_existing) /\ UniqueIds(i_new)

\* nothing is merged twice
TwiceOff ==
    /\ i_pc = "off"
    /\ i_existing = <<>>
    /\ i_new = <<>>
    /\ i_first = <<>>
    /\ i_second = <<>>

(***************************************************************************)
(* Specifications                                                          *)
(***************************************************************************)
\* games.py is not run
GamesOff ==
    /\ g_pc = "off"
    /\ seasontype = REG
    /\ week = 1
    /\ empty_streak = 0
    /\ all_games = <<>>
    /\ g_trace = <<>>
    /\ g_gaps = 0
    /\ written = [called |-> FALSE, games |-> <<>>]

InitGames == InitGamesVars /\ CfbOff /\ WeekOff /\ MergeOff /\ MakerOff /\ RunOff /\ NormOff /\ ParseOff /\ DerefOff /\ TeamsOff /\ SerOff /\ RefOff /\ AllOff /\ IdxOff /\ TwiceOff

NextGames ==
    \/ HarvestEvents
    \/ HarvestEmpty
    \/ HarvestHTTPError
    \/ HarvestTimeout
    \/ HarvestSleep
    \/ WriteGamesXml

SpecGames == InitGames /\ [][NextGames]_vars

\* the interpreter goes on running the script: a step of games.py that can
\* be taken is taken (every request returns or raises, every sleep ends)
SpecGamesFair == SpecGames /\ WF_vars(NextGames)

InitCfb == InitCfbVars /\ GamesOff /\ WeekOff /\ MergeOff /\ MakerOff /\ RunOff /\ NormOff /\ ParseOff /\ DerefOff /\ TeamsOff /\ SerOff /\ RefOff /\ AllOff /\ IdxOff /\ TwiceOff

NextCfb ==
    \/ BuildConferenceIndex
    \/ CfbFetchEvents
    \/ CfbFetchEmpty
    \/ CfbFetchFail
    \/ CfbSleep
    \/ CfbCreateXml
    \/ CfbNoGames

SpecCfb == InitCfb /\ [][NextCfb]_vars

InitWeek == InitWeekVars /\ GamesOff /\ CfbOff /\ MergeOff /\ MakerOff /\ RunOff /\ NormOff /\ ParseOff /\ DerefOff /\ TeamsOff /\ SerOff /\ RefOff /\ AllOff /\ IdxOff /\ TwiceOff

NextWeek ==
    \/ Strategy1
    \/ Strategy2
    \/ Strategy3
    \/ Strategy4
    \/ FinalCheck
    \/ BuildGame

SpecWeek == InitWeek /\ [][NextWeek]_vars

InitMerge == InitMergeVars /\ GamesOff /\ CfbOff /\ WeekOff /\ MakerOff /\ RunOff /\ NormOff /\ ParseOff /\ DerefOff /\ TeamsOff /\ SerOff /\ RefOff /\ AllOff /\ IdxOff /\ TwiceOff

NextMerge ==
    \/ SaveJsonMerge
    \/ SaveJsonCreate

SpecMerge == InitMerge /\ [][NextMerge]_vars

InitMaker == InitMakerVars /\ GamesOff /\ CfbOff /\ WeekOff /\ MergeOff /\ RunOff /\ NormOff /\ ParseOff /\ DerefOff /\ TeamsOff /\ SerOff /\ RefOff /\ AllOff /\ IdxOff /\ TwiceOff

NextMaker ==
    \/ MakerReadExisting
    \/ MakerNoExisting
    \/ MakerReadFails
    \/ MakerMerge
    \/ MakerWrite

SpecMaker == InitMaker /\ [][NextMaker]_vars

InitRun == InitRunVars /\ GamesOff /\ CfbOff /\ WeekOff /\ MergeOff /\ MakerOff /\ NormOff /\ ParseOff /\ DerefOff /\ TeamsOff /\ SerOff /\ RefOff /\ AllOff /\ IdxOff /\ TwiceOff

NextRun ==
    \/ RunSaveJson
    \/ JsonBackup
    \/ JsonBackupFails
    \/ JsonNoBackup
    \/ JsonWrite
    \/ XmlBackup
    \/ XmlBackupFails
    \/ XmlNoBackup
    \/ XmlWrite

SpecRun == InitRun /\ [][NextRun]_vars

InitNorm == InitNormVars /\ GamesOff /\ CfbOff /\ WeekOff /\ MergeOff /\ MakerOff /\ RunOff /\ ParseOff /\ DerefOff /\ TeamsOff /\ SerOff /\ RefOff /\ AllOff /\ IdxOff /\ TwiceOff

NextNorm ==
    \/ NormalizeConferenceName
    \/ NormalizeConf

SpecNorm == InitNorm /\ [][NextNorm]_vars

InitParse == InitParseVars /\ GamesOff /\ CfbOff /\ WeekOff /\ MergeOff /\ MakerOff /\ RunOff /\ NormOff /\ DerefOff /\ TeamsOff /\ SerOff /\ RefOff /\ AllOff /\ IdxOff /\ TwiceOff

NextParse ==
    \/ ParseEvent
    \/ ParseEventRaises

SpecParse == InitParse /\ [][NextParse]_vars

InitDeref == InitDerefVars /\ GamesOff /\ CfbOff /\ WeekOff /\ MergeOff /\ MakerOff /\ RunOff /\ NormOff /\ ParseOff /\ TeamsOff /\ SerOff /\ RefOff /\ AllOff /\ IdxOff /\ TwiceOff

NextDeref ==
    \/ DerefCompetitorFails
    \/ ProcessCompetitor
    \/ CompetitorsDone
    \/ KeepGame
    \/ SkipGame

SpecDeref == InitDeref /\ [][NextDeref]_vars

InitTeams == InitTeamsVars /\ GamesOff /\ CfbOff /\ WeekOff /\ MergeOff /\ MakerOff /\ RunOff /\ NormOff /\ ParseOff /\ DerefOff /\ SerOff /\ RefOff /\ AllOff /\ IdxOff /\ TwiceOff

NextTeams ==
    \/ TeamsFetchFails
    \/ ParseFbs
    \/ FbsNoTable
    \/ AcMembers
    \/ SecMembersAndFbsRows
    \/ ParseFcs
    \/ FcsNoTable
    \/ BuildNflRecords
    \/ WriteTeamsXml

SpecTeams == InitTeams /\ [][NextTeams]_vars

InitSer == InitSerVars /\ GamesOff /\ CfbOff /\ WeekOff /\ MergeOff /\ MakerOff /\ RunOff /\ NormOff /\ ParseOff /\ DerefOff /\ TeamsOff /\ RefOff /\ AllOff /\ IdxOff /\ TwiceOff

NextSer ==
    \/ SerializeGamesXml
    \/ GamesXmlNotWritten
    \/ SerializeScheduleXml
    \/ ScheduleGameSkipped
    \/ SerializeCell

SpecSer == InitSer /\ [][NextSer]_vars

InitRef == InitRefVars /\ GamesOff /\ CfbOff /\ WeekOff /\ MergeOff /\ MakerOff /\ RunOff /\ NormOff /\ ParseOff /\ DerefOff /\ TeamsOff /\ SerOff /\ AllOff /\ IdxOff /\ TwiceOff

NextRef ==
    \/ RefEventInline
    \/ RefFetchEvent
    \/ RefFetchEventFails
    \/ RefCompetitorFails
    \/ RefCompetitor
    \/ RefCompetitorsDone

\* the loop body goes on: every fetch returns (timeout=15) and the next
\* statement is executed
SpecRef == InitRef /\ [][NextRef]_vars /\ WF_vars(NextRef)

InitAll == InitAllVars /\ GamesOff /\ CfbOff /\ WeekOff /\ MergeOff /\ MakerOff /\ RunOff /\ NormOff /\ ParseOff /\ DerefOff /\ TeamsOff /\ SerOff /\ RefOff /\ IdxOff /\ TwiceOff

NextAll ==
    \/ FetchScoreboardCurrent
    \/ TryEvents
    \/ TryWeeks
    \/ TryDates
    \/ TryAlternative
    \/ NoDataFetched
    \/ ProcessEventData
    \/ NoGamesProcessed
    \/ SaveJsonAndXml

SpecAll == InitAll /\ [][NextAll]_vars

InitIdx == InitIdxVars /\ GamesOff /\ CfbOff /\ WeekOff /\ MergeOff /\ MakerOff /\ RunOff /\ NormOff /\ ParseOff /\ DerefOff /\ TeamsOff /\ SerOff /\ RefOff /\ AllOff /\ TwiceOff

NextIdx ==
    \/ BuildIndex
    \/ BuildIndexFails

SpecIdx == InitIdx /\ [][NextIdx]_vars

InitTwice == InitTwiceVars /\ GamesOff /\ CfbOff /\ WeekOff /\ MergeOff /\ MakerOff /\ RunOff /\ NormOff /\ ParseOff /\ DerefOff /\ TeamsOff /\ SerOff /\ RefOff /\ AllOff /\ IdxOff

NextTwice ==
    \/ MergeFirst
    \/ MergeSecond

SpecTwice == InitTwice /\ [][NextTwice]_vars

(***************************************************************************)
(* Claims about games.py (checked under SpecGames)                         *)
(***************************************************************************)
SeasonTypes == {REG, POST}

IsRequestOf(e, st) == e.op = "request" /\ e.seasontype = st

\* the requests issued for season type st, in order
Reqs(st) == SelectSeq(g_trace, LAMBDA e : IsRequestOf(e, st))

\* the games collected for season type st, in order
GamesFor(st) == SelectSeq(all_games, LAMBDA g : g.season_type = SeasonLabel(st))

\* harvest(st) has returned (or the run ended)
HarvestOver(st) ==
    \/ g_pc \in {"write", "done", "crashed"}
    \/ (st = REG /\ seasontype = POST)

RECURSIVE TrailingEmpties(_)
TrailingEmpties(R) ==
    IF R = <<>> \/ R[Len(R)].result # "empty"
    THEN 0
    ELSE 1 + TrailingEmpties(SubSeq(R, 1, Len(R) - 1))

\* the games of weeks 1..k of season type st, week by week
RECURSIVE GamesOfWeeks(_, _)
GamesOfWeeks(st, k) ==
    IF k = 0 THEN <<>>
    ELSE GamesOfWeeks(st, k - 1) \o
         [i \in 1..Len(UpstreamEvents(st, k)) |->
            [espn_event_id |-> <<st, k, i>>, season_type |-> SeasonLabel(st), week |-> k]]

\* R is k non-empty weeks followed by exactly two empty weeks
KThenTwoEmpty(R, k) ==
    /\ Len(R) = k + 2
    /\ \A i \in 1..k : R[i].result = "events"
    /\ R[k + 1].result = "empty"
    /\ R[k + 2].result = "empty"

C3_FailedRequestNeverAborts ==
    (\E i \in 1..Len(g_trace) : g_trace[i].result \in {"http_error", "timeout"})
        => g_pc # "crashed"

(***************************************************************************)
(* Claims about schedule.py (checked under SpecCfb)                        *)
(***************************************************************************)
IsCfbRequestOf(e, y) == e.op = "request" /\ e.year = y /\ e.week > 0

\* the week requests issued for year y, in order
CfbReqs(y) == SelectSeq(c_trace, LAMBDA e : IsCfbRequestOf(e, y))

\* the events of the weeks of R that were fetched with events, week by week
RECURSIVE CfbFetchedEvents(_)
CfbFetchedEvents(R) ==
    IF R = <<>> THEN <<>>
    ELSE LET last == R[Len(R)]
             got == IF last.result = "events"
                    THEN [k \in 1..(1 + (last.week % MaxEvents)) |->
                            [year |-> last.year, w |-> last.week, k |-> k]]
                    ELSE <<>>
         IN  CfbFetchedEvents(SubSeq(R, 1, Len(R) - 1)) \o got

\* the week loop of year y has ended
CfbWeeksOver(y) ==
    \/ c_pc = "done"
    \/ (year = y /\ c_pc = "after_weeks")
    \/ (\E i \in 1..Len(Years) : Years[i] = y /\ i < year_idx)

CfbYearTried(y) == \E i \in 1..year_idx : Years[i] = y /\ (i < year_idx \/ c_pc # "index")

\* C4: in get_cfb_schedule_xml the failure of week w of a year discards
\* nothing: the weeks of a year are requested one after the other up to
\* week 15 whatever fails, and create_xml is called with the events of every
\* successfully fetched week of the year, in week order.
C4_FailedWeekKeepsOthers ==
    \A i \in 1..Len(Years) :
      LET y == Years[i]
          R == CfbReqs(y)
      IN  /\ \A n \in 1..Len(R) : R[n].week = n
          /\ Len(R) <= CfbWeeks
          /\ (i < year_idx \/ (i = year_idx /\ c_pc \in {"after_weeks", "done"}))
                => Len(R) = CfbWeeks
          /\ (i = year_idx /\ c_pc \in {"fetch", "sleep", "after_weeks"})
                => c_all_games = CfbFetchedEvents(R)
          /\ (created.called /\ created.year = y)
                => created.games = CfbFetchedEvents(R)
          /\ (c_pc = "done" /\ i = year_idx /\ CfbFetchedEvents(R) # <<>>)
                => (created.called /\ created.year = y)

\* C4 witness: the request of week 1 of 2025 failed, week 2 was fetched
\* with events, all 15 weeks were requested and create_xml was called with
\* the events of week 2.
C4_Witness ==
    LET R == CfbReqs(2025) IN
    /\ c_pc = "done"
    /\ created.called
    /\ created.year = 2025
    /\ Len(R) = CfbWeeks
    /\ R[1].result = "fail"
    /\ R[2].result = "events"
    /\ created.games = CfbEvents(2025, 2)

(***************************************************************************)
(* Claims about the week of an event (checked under SpecWeek)              *)
(***************************************************************************)
\* what each of the four ordered strategies yields for the event
StrategyResult(k) ==
    CASE k = 1 -> NestedWeek(event.week)
      [] k = 2 -> get_week_from_competition_data(event)
      [] k = 3 -> NestedWeek(event.season_week)
      [] k = 4 -> IF event.date.present THEN estimate_week_from_date(event.date) ELSE ""

\* k is the first strategy with a non-empty result
FirstNonEmpty(k) ==
    /\ Truthy(StrategyResult(k))
    /\ \A j \in 1..(k - 1) : ~Truthy(StrategyResult(j))

\* the event carries no explicit week field
NoExplicitWeek ==
    /\ event.week = -2
    /\ event.comp.kind \in {"no_competitions", "no_week"}
    /\ event.season_week = -2

\* C5: the week of a game is the first non-empty result of the ordered
\* strategies 1..4: once strategy k has produced a non-empty value, no later
\* strategy (nor the final month table) is consulted, and the value is the
\* week of the game record.
C5_FirstStrategyWins ==
    \A k \in 1..4 :
      FirstNonEmpty(k) =>
        /\ consulted \subseteq 1..k
        /\ (k \in consulted => week_number = StrategyResult(k))
        /\ (w_pc = "done" => (consulted = 1..k /\ game.week = StrategyResult(k)))

\* C5 witness: strategy 1 found nothing, the competition gave week 6, the
\* season object and the date would have given other weeks, and the game
\* was recorded with week 6 without consulting them.
C5_Witness ==
    /\ w_pc = "done"
    /\ StrategyResult(1) = IntZero
    /\ StrategyResult(2) = "6"
    /\ StrategyResult(3) = "7"
    /\ StrategyResult(4) = "1"
    /\ consulted = {1, 2}
    /\ game.week = "6"

\* the week the date formula assigns: n = floor(days / 7) + 1, '18' for a
\* later date in January 2026, the playoff label 'P(n-18)' otherwise
FormulaWeek(dt) ==
    LET n == (days_since_start(dt) \div 7) + 1 IN
    IF n <= 18 THEN ToString(n)
    ELSE IF dt.m = 1 /\ dt.y = 2026 THEN "18"
    ELSE "P" \o ToString(n - 18)

\* C6: for every event without explicit week field whose date is on or
\* after 4 Sep 2025, with or without 'Z' suffix, the recorded week is the
\* one the date formula assigns.
C6_DateFormulaWeek ==
    (w_pc = "done" /\ NoExplicitWeek /\ event.date.present
        /\ days_since_start(event.date) >= 0)
      => game.week = FormulaWeek(event.date)

\* C7: for an event without explicit week fields every date from 4 to 10
\* September 2025 is recorded as week '1' and every date in January 2026 as
\* week '18', whichever format the date has (whichever path the chain took).
C7_FirstWeekAndJanuary ==
    (w_pc = "done" /\ NoExplicitWeek /\ event.date.present) =>
        /\ (event.date.y = 2025 /\ event.date.m = 9
              /\ event.date.d >= 4 /\ event.date.d <= 10) => game.week = "1"
        /\ (event.date.y = 2026 /\ event.date.m = 1) => game.week = "18"

\* C7 witness: 2026-01-03T..Z, which the date estimate rejects, went through
\* the final month table and was recorded as week 18.
C7_Witness ==
    /\ w_pc = "done"
    /\ NoExplicitWeek
    /\ event.date = [present |-> TRUE, y |-> 2026, m |-> 1, d |-> 3, fmt |-> "TZ"]
    /\ consulted = {1, 2, 3, 4, 5}
    /\ game.week = "18"

(***************************************************************************)
(* Claims about merge_game_data (checked under SpecMerge)                  *)
(***************************************************************************)
\* merge_game_data has run on the prior and the fresh games
Merged == m_pc = "saved" /\ existing_games # <<>>

\* the ids present in both sets
SharedIds ==
    {id \in {existing_games[i].id : i \in 1..Len(existing_games)} :
        id # "" /\ WithId(new_games, id) # {}}

\* the record of the merged result with the id
MergedRec(id) == Lookup(merged_games, id)

\* the fields of a fetched game (last_updated is the merge's own timestamp)
FetchedFields == {"name", "season"}

\* C8: for a game id present in both sets, a top-level field, the team list,
\* or a field of a team matched by team id, whose new value is empty never
\* replaces a non-empty existing value: the merged record keeps the
\* existing value.
C8_EmptyNeverOverwrites ==
    Merged =>
      \A id \in SharedIds :
        LET e == Lookup(existing_games, id)
            n == Lookup(new_games, id)
        IN  /\ WithId(merged_games, id) # {}
            /\ \A f \in FetchedFields :
                 (n[f] = "" /\ e[f] # "") => MergedRec(id)[f] = e[f]
            /\ (n.teams = <<>> /\ e.teams # <<>>) => MergedRec(id).teams = e.teams
            /\ \A i \in 1..Len(n.teams) :
                 WithId(e.teams, n.teams[i].id) # {} =>
                   LET et == Lookup(e.teams, n.teams[i].id) IN
                   /\ WithId(MergedRec(id).teams, et.id) # {}
                   /\ \A f \in TeamFields :
                        (n.teams[i][f] = "" /\ et[f] # "")
                          => Lookup(MergedRec(id).teams, et.id)[f] = et[f]

\* C8 witness: the two records of game g1 differ, the new one has an empty
\* season and a team with an empty location, and the merged record (stamped
\* by merge_single_game) kept the existing season and location.
C8_Witness ==
    /\ Merged
    /\ Len(existing_games) = 1 /\ Len(new_games) = 1
    /\ existing_games[1].id = "g1" /\ new_games[1].id = "g1"
    /\ existing_games[1].season = "2024" /\ new_games[1].season = ""
    /\ existing_games[1].name = "" /\ new_games[1].name = "A"
    /\ existing_games[1].teams = <<[id |-> "t1", score |-> "", location |-> "NY"]>>
    /\ new_games[1].teams = <<[id |-> "t1", score |-> "7", location |-> ""]>>
    /\ merged_games = <<[id |-> "g1", name |-> "A", season |-> "2024",
                         last_updated |-> Now,
                         teams |-> <<[id |-> "t1", score |-> "7", location |-> "NY"]>>]>>

\* C9: for a game id present in both sets, every field whose new-fetch value
\* is non-empty (a top-level field such as season, a field of a team such as
\* location) has the new value in the merged result.
C9_NonEmptyNewValueWins ==
    Merged =>
      \A id \in SharedIds :
        LET n == Lookup(new_games, id) IN
        /\ WithId(merged_games, id) # {}
        /\ \A f \in FetchedFields : n[f] # "" => MergedRec(id)[f] = n[f]
        /\ \A i \in 1..Len(n.teams) :
             /\ WithId(MergedRec(id).teams, n.teams[i].id) # {}
             /\ \A f \in TeamFields :
                  n.teams[i][f] # ""
                    => Lookup(MergedRec(id).teams, n.teams[i].id)[f] = n.teams[i][f]

\* g has a counterpart in games: a record with the same (non-empty) id
Counterpart(g, games) == g.id # "" /\ WithId(games, g.id) # {}

\* the new games without counterpart among the existing, in the new order
NewOnly == SelectSeq(new_games, LAMBDA g : ~Counterpart(g, existing_games))

\* C10: the merged list is the existing list, each game in its place and
\* unchanged when it has no counterpart in the new set, followed by every
\* new game without counterpart in the existing set, in the new set's
\* order; no record of either input is lost.
C10_KeepsExistingAppendsNew ==
    Merged =>
      /\ Len(merged_games) = Len(existing_games) + Len(NewOnly)
      /\ \A i \in 1..Len(existing_games) :
           ~Counterpart(existing_games[i], new_games)
             => merged_games[i] = existing_games[i]
      /\ SubSeq(merged_games, Len(existing_games) + 1, Len(merged_games)) = NewOnly


\* the ids of a list of games
IdsOf(games) == {games[i].id : i \in 1..Len(games)}

\* C11: when the ids of the existing games and the ids of the new games are
\* disjoint, the merged list has len(existing) + len(new) games.
C11_DisjointIdsSumLength ==
    (Merged /\ IdsOf(existing_games) \cap IdsOf(new_games) = {})
      => Len(merged_games) = Len(existing_games) + Len(new_games)

(***************************************************************************)
(* Claims about maker.py (checked under SpecMaker)                         *)
(***************************************************************************)
\* dedupe_merge has concatenated and de-duplicated prior and fresh rows
Deduped ==
    /\ k_pc \in {"write", "done"}
    /\ ~existing_df.none /\ existing_df.rows # <<>>
    /\ new_df # <<>>

\* the concatenated frame
AllRows == existing_df.rows \o new_df

\* the identity of a row: the first available of uid, id, displayName
Identity(r) ==
    IF r.uid # NaN THEN <<"uid", r.uid>>
    ELSE IF r.id # NaN THEN <<"id", r.id>>
    ELSE IF r.displayName # NaN THEN <<"name", r.displayName>>
    ELSE <<"none", "">>

\* two rows are the same team
SameTeam(a, b) ==
    /\ a.league_marker = b.league_marker
    /\ Identity(a)[1] # "none"
    /\ Identity(a) = Identity(b)

\* of the rows that are the same team the first is kept
RECURSIVE FirstOfEachTeam(_, _)
FirstOfEachTeam(df, n) ==
    IF n = 0 THEN <<>>
    ELSE IF \E j \in 1..(n - 1) : SameTeam(df[j], df[n])
         THEN FirstOfEachTeam(df, n - 1)
         ELSE Append(FirstOfEachTeam(df, n - 1), df[n])

\* dedupe_merge keeps the first row of each team and drops the others
CollapsedByTeam ==
    Deduped => merged_df = FirstOfEachTeam(AllRows, Len(AllRows))

\* a row without uid, id and displayName is kept, however many rows like it
\* there are
RowsWithoutIdentityKept ==
    Deduped =>
      \A i \in 1..Len(AllRows) :
        Identity(AllRows[i])[1] = "none"
          => Cardinality({j \in 1..Len(merged_df) : merged_df[j] = AllRows[i]})
               = Cardinality({j \in 1..Len(AllRows) : AllRows[j] = AllRows[i]})

\* two rows that both carry an id, and different ones, do not get the same
\* dedupe key
DifferentIdsKept ==
    Deduped =>
      \A i, j \in 1..Len(AllRows) :
        (AllRows[i].id # NaN /\ AllRows[j].id # NaN /\ AllRows[i].id # AllRows[j].id)
          => key_row(AllRows, i) # key_row(AllRows, j)

\* C12: dedupe_merge collapses two rows exactly when they have the same
\* league and the same identity (first available of uid, id, displayName);
\* a row that lacks all three is never merged with another row, and two
\* rows with different ids are never collapsed into one.
C12_SameTeamIffLeagueAndIdentity ==
    /\ CollapsedByTeam
    /\ RowsWithoutIdentityKept
    /\ DifferentIdsKept

\* C13: when a prior row and a fresh row have the same identity key, the
\* file written out holds a row that carries the fresh value of every field
\* whose fresh value is non-empty.
C13_FreshValueWins ==
    (Deduped /\ k_pc = "done") =>
      \A i \in 1..Len(existing_df.rows) :
        \A j \in (Len(existing_df.rows) + 1)..Len(AllRows) :
          key_row(AllRows, i) = key_row(AllRows, j) =>
            \E w \in 1..Len(teams_xml.rows) :
              \A c \in Columns :
                AllRows[j][c] # NaN => teams_xml.rows[w][c] = AllRows[j][c]

\* C14: a write that replaces an existing teams.xml comes after a backup
\* copy of that file was written in the same run.
C14_BackupBeforeOverwrite ==
    \A i \in 1..Len(fs_ops) :
      (fs_ops[i].op = "write" /\ fs_ops[i].path = XML_FILE /\ fs_ops[i].existed)
        => \E j \in 1..(i - 1) :
             fs_ops[j].op = "backup" /\ fs_ops[j].path = XML_FILE

(***************************************************************************)
(* Claims about NFLScheduleScraper.run (checked under SpecRun)             *)
(***************************************************************************)
\* C15: when run() has written both files, the JSON file and the XML file
\* hold games with the same set of ids.
C15_JsonAndXmlSameGames ==
    r_pc = "done" => IdsOf(json_file.games) = IdsOf(xml_file.games)

(***************************************************************************)
(* Claims about the conference normalizers (checked under SpecNorm)        *)
(***************************************************************************)
\* C16: a second application of either normalizer returns what the first
\* returned, for every label, the empty and the unmatched ones included.
C16_NormalizersIdempotent ==
    Len(n_out) >= 2 => n_out[2] = n_out[1]

\* the rules of the mapping list one of whose patterns is in n
MatchingRules(n) ==
    {i \in 1..Len(Mapping) :
        \E k \in 1..Len(Mapping[i].keys) : Contains(n, Mapping[i].keys[k])}

\* the label of the first matching rule in list order, the trimmed input when
\* no rule matches
ByFirstRule(input) ==
    LET n == lower(strip(input))
    IN  IF MatchingRules(n) = {} THEN strip(input)
        ELSE Mapping[Min(MatchingRules(n))].label

AmericanAthleticConference == <<"A", "m", "e", "r", "i", "c", "a", "n", " ", "A", "t", "h", "l", "e", "t", "i", "c", " ", "C", "o", "n", "f", "e", "r", "e", "n", "c", "e">>

AmericanInputs ==
    {<<"A", "m", "e", "r", "i", "c", "a", "n", " ", "A", "t", "h", "l", "e", "t", "i", "c", " ", "C", "o", "n", "f", "e", "r", "e", "n", "c", "e">>,
     <<"A", "A", "C">>,
     <<"T", "h", "e", " ", "A", "m", "e", "r", "i", "c", "a", "n">>}

MidAmericanConference == <<"M", "i", "d", "-", "A", "m", "e", "r", "i", "c", "a", "n", " ", "C", "o", "n", "f", "e", "r", "e", "n", "c", "e">>

\* both normalizers map the three American labels to the canonical one
AmericanPrecedence ==
    (n_out # <<>> /\ raw_label \in AmericanInputs)
      => n_out[1] = AmericanAthleticConference

\* C17 as stated: for every input, normalize_conf returns the label of the
\* first matching rule in list order, and the trimmed input when no rule
\* matches; the three American labels go to 'American Athletic Conference'.
C17_FirstRuleOrTrimmedInput ==
    /\ (n_out # <<>> /\ n_fn = "normalize_conf") => n_out[1] = ByFirstRule(raw_label)
    /\ AmericanPrecedence

\* C17, amended: the same for every non-empty input; the empty input, which
\* no rule matches, is returned as 'Independent'.
C17_FirstRuleOrTrimmedInputUnlessEmpty ==
    /\ (n_out # <<>> /\ n_fn = "normalize_conf") =>
         n_out[1] = IF raw_label = <<>> THEN IndependentLabel ELSE ByFirstRule(raw_label)
    /\ AmericanPrecedence

\* C17 witness: 'Mid-American Conference' holds patterns of two rules
\* ('american conference' and 'mid-american'); normalize_conf returned the
\* label of the one that comes first in the list.
C17_Witness ==
    /\ n_fn = "normalize_conf"
    /\ raw_label = MidAmericanConference
    /\ Cardinality(MatchingRules(lower(strip(raw_label)))) = 2
    /\ n_out = <<AmericanAthleticConference>>

(***************************************************************************)
(* Claims about games.py parse_event (checked under SpecParse)             *)
(***************************************************************************)
\* every optional key of the event is missing or holds a value: none is null
KeysMissingOrPresent ==
    p_event.id.t # "none" /\ p_event.date.t # "none" /\ p_event.competitions.t # "none"

EmptyString == PyStr(<<>>)

\* the competitors parse_event sees
SeenCompetitors == CompetitorsOf(FirstCompetition(p_event.competitions))

\* the competitor that sets the fields of a side: the last one of the side
LastOfSide(side) == SeenCompetitors[Max(SideOf(SeenCompetitors, side))]

\* C18: for an event in which any of the optional keys (id, date,
\* competitions, competitors, team, score, status) is missing, parse_event
\* does not raise: it returns a record with the nine output fields, each a
\* string, and each value that is missing is rendered as the empty string.
C18_MissingKeysGiveEmptyStrings ==
    (p_pc # "parse" /\ KeysMissingOrPresent) =>
      /\ p_pc = "returned"
      /\ DOMAIN parsed = OutputFields
      /\ \A f \in OutputFields : parsed[f].t = "str"
      /\ p_event.id.t = "missing" =>
           parsed.espn_event_id = EmptyString /\ parsed.espn_gamecast_url = EmptyString
      /\ p_event.date.t = "missing" =>
           parsed.date = EmptyString /\ parsed.time = EmptyString
      /\ SeenCompetitors = <<>> =>
           /\ parsed.away = EmptyString /\ parsed.home = EmptyString
           /\ parsed.pts_away = EmptyString /\ parsed.pts_home = EmptyString
      /\ FirstCompetition(p_event.competitions).status.t = "missing" =>
           parsed.overtime = EmptyString
      /\ \A side \in {"home", "away"} :
           SideOf(SeenCompetitors, side) # {} =>
             /\ LastOfSide(side).team.t = "missing" => parsed[side] = EmptyString
             /\ LastOfSide(side).score.t = "missing" => parsed["pts_" \o side] = EmptyString

\* C18 witness: an event without id, date and status, whose home competitor
\* has neither team nor score, was parsed: the home fields are empty strings
\* next to the away team's name and score.
C18_Witness ==
    /\ p_pc = "returned"
    /\ p_event.id = PyMissing /\ p_event.date = PyMissing
    /\ p_event.competitions.t = "list"
    /\ Len(SeenCompetitors) = 2
    /\ SeenCompetitors[1].homeAway = PyStr(<<"home">>)
    /\ SeenCompetitors[1].team.t = "missing" /\ SeenCompetitors[1].score = PyMissing
    /\ SeenCompetitors[2].homeAway = PyStr(<<"away">>)
    /\ FirstCompetition(p_event.competitions).status.t = "missing"
    /\ parsed = [date |-> EmptyString, time |-> EmptyString,
                 away |-> PyStr(<<"Bills">>), home |-> EmptyString,
                 pts_away |-> PyStr(<<"21">>), pts_home |-> EmptyString,
                 overtime |-> EmptyString, espn_event_id |-> EmptyString,
                 espn_gamecast_url |-> EmptyString]

(***************************************************************************)
(* Claims about the $ref markers in process_event_data (under SpecDeref)   *)
(***************************************************************************)
\* with every dereference successful the game has actual data and is kept
KeptWhenAllFetched ==
    d_event.id # "" \/ d_event.name # "" \/ d_event.competitors # <<>>

\* the positions of the competitors whose own marker was not lost
TeamsExpected == {k \in 1..Len(d_fetches) : d_fetches[k].competitor # "failed"}

\* C19: once the event is obtained, a failed dereference of a competitor, a
\* team, a record or a score never removes the game: the game is in the
\* output, and a team field holds the upstream value unless its own
\* dereference failed, in which case it holds the default.
C19_FailedDerefKeepsGame ==
    (d_pc = "done" /\ KeptWhenAllFetched) =>
      /\ Len(processed) = 1
      /\ processed[1].id = d_event.id /\ processed[1].name = d_event.name
      /\ Len(processed[1].teams) = Cardinality(TeamsExpected)
      /\ \A k \in TeamsExpected :
           LET n == Cardinality({j \in TeamsExpected : j <= k})
               t == processed[1].teams[n]
               u == UpstreamCompetitor(k)
           IN  /\ t.id = u.id
               /\ t.name = IF d_fetches[k].team = "failed" THEN "" ELSE u.displayName
               /\ t.record = IF d_fetches[k].record = "failed" THEN "" ELSE u.summary
               /\ t.score = IF d_fetches[k].score = "failed" THEN "0" ELSE u.value

(***************************************************************************)
(* Claims about teams.py (checked under SpecTeams)                         *)
(***************************************************************************)
\* C20: when the FBS page or the FCS page has no wikitable with a Conference
\* header, a run that has ended has reported the failure and exited with a
\* non-zero status, and teams.xml was not written by the run; in any run,
\* teams.xml is written only after every source was parsed.
C20_MissingTableIsFatal ==
    /\ (t_pc \in {"done", "exit"} /\ (~fbs_page.has_table \/ ~fcs_page.has_table)) =>
         /\ t_pc = "exit"
         /\ t_exit.code = 1 /\ t_exit.printed # ""
         /\ t_file.written_by # "this run"
    /\ t_file.written_by = "this run" => t_steps = <<"fbs", "ac", "sec", "fcs", "nfl">>

\* C20 witness: the FBS page was parsed, the FCS page has no such table: the
\* run reported it and exited with status 1, and the teams.xml of an
\* earlier run is as it was.
C20_Witness ==
    /\ t_pc = "exit"
    /\ fbs_page.has_table /\ ~fcs_page.has_table
    /\ t_steps = <<"fbs", "ac", "sec">>
    /\ t_exit = Exit1("Failed: Could not find FCS wikitable with a Conference column.")
    /\ t_file = [exists |-> TRUE, written_by |-> "an earlier run", ncaa |-> <<>>]

(***************************************************************************)
(* Claims about the serializers (checked under SpecSer)                    *)
(***************************************************************************)
\* the source value was absent or null
Absent(source) == source.t \in {"missing", "none", "nan"}

\* the text is not made of the word None, null or nan
NoNullWord(text) == \A i \in 1..Len(text) : text[i] \notin {"None", "null", "nan"}

\* C21: every text value that write_games_xml, convert_to_xml and
\* cast_all_to_str emit for an absent or null source value is the empty
\* string, and no such text holds the word None, null or nan.
C21_AbsentValuesRenderEmpty ==
    \A x \in s_texts : Absent(x.source) => x.text = <<>> /\ NoNullWord(x.text)

(***************************************************************************)
(* Claims about the harvest loop of games.py (checked under SpecGames)     *)
(***************************************************************************)
\* C22: the harvest of each season type stops at the first week that
\* returns no events: an empty week is the last week requested for its
\* season type.
C22_StopAtFirstEmptyWeek ==
    \A st \in SeasonTypes :
      LET R == Reqs(st) IN
      \A i \in 1..Len(R) : R[i].result = "empty" => i = Len(R)

\* C23: between two consecutive requests of a harvest a pause is taken,
\* also after an empty week and after a failed request: no request of a
\* season type is followed at once by another request of that season type.
C23_PauseBetweenRequests ==
    \A i \in 1..(Len(g_trace) - 1) :
      (g_trace[i].op = "request" /\ g_trace[i + 1].op = "request")
        => g_trace[i + 1].seasontype # g_trace[i].seasontype

\* C24: no week above max_weeks_guess is requested, and no collected game
\* carries a week above the cap of its season type.
C24_NoWeekAboveCap ==
    /\ \A i \in 1..Len(g_trace) :
         g_trace[i].op = "request" => g_trace[i].week <= max_weeks_guess(g_trace[i].seasontype)
    /\ \A st \in SeasonTypes :
         \A i \in 1..Len(GamesFor(st)) : GamesFor(st)[i].week <= max_weeks_guess(st)

\* the requests of one harvest stay within the cap and one week more
RequestsBounded == \A st \in SeasonTypes : Len(Reqs(st)) <= max_weeks_guess(st) + 1

\* C25 (checked under SpecGamesFair): whatever the upstream answers (weeks
\* with events, empty weeks, errors; also answers without two empty weeks in
\* a row), both harvests come to an end, and a harvest issues at most
\* max_weeks_guess + 1 requests.
C25_HarvestTerminates ==
    /\ []RequestsBounded
    /\ <>(HarvestOver(REG) /\ HarvestOver(POST))

\* C25 witness: the run is over, the REG harvest never saw two empty weeks
\* in a row; it saw an empty week at the cap and was ended by the safety
\* valve after its request number max_weeks_guess + 1.
C25_Witness ==
    LET R == Reqs(REG) IN
    /\ g_pc = "done"
    /\ Len(R) = RegMaxWeeksGuess + 1
    /\ R[Len(R)].result = "events"
    /\ R[Len(R) - 1].result = "empty"
    /\ \A i \in 1..(Len(R) - 1) : ~(R[i].result = "empty" /\ R[i + 1].result = "empty")

(***************************************************************************)
(* Claims about the fetches of process_event_data (checked under SpecRef)  *)
(***************************************************************************)
\* the URL of the marker in `slot` of competitor i (0: the event)
MarkerOf(slot, i) ==
    IF slot = "event" THEN f_event.event ELSE f_event.competitors[i][slot]

\* C26: every GET of process_event_data is for a marker of the event or of
\* one of its competitors and goes to that marker's URL (never to a $ref
\* found in a fetched object), no marker is fetched twice, so at most
\* 1 + 4*C GETs are issued for an event with C competitors; and the
\* processing of the event ends, whatever the objects of the upstream refer to.
C26_EachMarkerFetchedOnce ==
    /\ [](/\ \A k \in 1..Len(f_fetched) : f_fetched[k].url = MarkerOf(f_fetched[k].slot, f_fetched[k].i)
          /\ \A j, k \in 1..Len(f_fetched) :
               (f_fetched[j].slot = f_fetched[k].slot /\ f_fetched[j].i = f_fetched[k].i) => j = k
          /\ Len(f_fetched) <= 1 + 4 * Len(f_event.competitors))
    /\ <>(f_pc = "done")

\* C26 witness: the event and all four markers of each of its two
\* competitors were fetched, 9 GETs, and the processing ended, while the
\* objects served at the two URLs refer to each other.
C26_Witness ==
    /\ f_pc = "done"
    /\ f_graph = [u \in URLs |-> IF u = "u1" THEN "u2" ELSE "u1"]
    /\ Len(f_event.competitors) = 2
    /\ Len(f_fetched) = 9

(***************************************************************************)
(* Claims about run('all') of 2025_nfl_schedule_espn.py (under SpecAll)    *)
(***************************************************************************)
\* the methods were invoked in the fixed order, each at most once, a later
\* one only after every earlier one returned no events
FixedOrderNoRetry ==
    /\ \A k \in 1..Len(a_calls) : a_calls[k] = FetchMethods[k]
    /\ \A j, k \in 1..Len(a_calls) : j < k => ~a_upstream.events[a_calls[j]]

\* run('all') is over and nothing was fetched, or nothing could be processed
AllFailed ==
    /\ a_method = "all" /\ a_pc = "exited"
    /\ \/ \A m \in DOMAIN a_upstream.events : ~a_upstream.events[m]
       \/ ~a_upstream.processable

\* C27 as stated: with run('all') the methods are tried in the fixed order
\* without retry, and when all four return nothing or no game can be
\* processed, run returns False, the process exits non-zero and no JSON or
\* XML file is written.
C27_FixedOrderAndNoFileOnFailure ==
    /\ a_method = "all" => FixedOrderNoRetry
    /\ AllFailed => a_exit = [returned |-> "False", code |-> 1] /\ a_written = {}

\* C27, amended: the same, except that on failure the two output files
\* (schedule JSON and XML) are not written, while the raw events are
\* dumped to 2025_nfl_schedule_raw_debug.json exactly when events were
\* fetched and no game could be processed from them.
C27_FixedOrderAndNoOutputOnFailure ==
    /\ a_method = "all" => FixedOrderNoRetry
    /\ AllFailed =>
         /\ a_exit = [returned |-> "False", code |-> 1]
         /\ JsonName \notin a_written /\ XmlName \notin a_written
         /\ RawDebugName \in a_written <=> a_events # <<>>

\* C27 witness: run('all') went through events, weeks and dates, which
\* returned nothing, got events from the alternative endpoints, could
\* process none of them and exited with status 1 after the raw dump.
C27_Witness ==
    /\ a_method = "all" /\ a_pc = "exited"
    /\ a_calls = FetchMethods
    /\ a_events = <<[from |-> "alternative"]>>
    /\ a_games = <<>>
    /\ a_exit = [returned |-> "False", code |-> 1]
    /\ a_written = {RawDebugName}

(***************************************************************************)
(* Claims about build_conference_index of schedule.py (under SpecIdx)      *)
(***************************************************************************)
\* the name of the last conference-like node on a path of names
RECURSIVE NearestConference(_)
NearestConference(path) ==
    IF path = <<>> THEN NoName
    ELSE IF looks_like_conference(path[Len(path)]) THEN path[Len(path)]
    ELSE NearestConference(SubSeq(path, 1, Len(path) - 1))

\* the paths of names from the root to the nodes whose standings list t
PathsListing(t) ==
    LET g == standings.children[1] IN
    (IF t \in g.entries THEN {<<standings.name, g.name>>} ELSE {})
    \cup (IF g.children # <<>> /\ t \in g.children[1].entries
          THEN {<<standings.name, g.name, g.children[1].name>>}
          ELSE {})

\* C28: every team id of the index is mapped to the name of the nearest
\* conference-like node on the path from the root to a standings node that
\* lists the team; the value is never empty and never the name of a node
\* that is no conference (a division, a region).
C28_IndexHoldsNearestConference ==
    \A t \in DOMAIN b_idx :
      /\ b_idx[t] # NoName
      /\ looks_like_conference(b_idx[t])
      /\ b_idx[t] \in {NearestConference(p) : p \in PathsListing(t)}

(***************************************************************************)
(* Further claims about maker.py dedupe_merge (checked under SpecMaker)    *)
(***************************************************************************)
\* dedupe_merge has returned
MergeReturned == k_pc \in {"write", "done"}

\* no two rows of the returned frame are the same team
NoTwoRowsOfOneTeam ==
    MergeReturned =>
      \A i, j \in 1..Len(merged_df) :
        SameTeam(merged_df[i], merged_df[j]) => i = j

\* a team that occurs in the prior rows and in the fresh rows has exactly
\* one row in the returned frame
OneRowForSharedTeam ==
    MergeReturned =>
      \A i \in 1..Len(existing_df.rows) : \A j \in 1..Len(new_df) :
        SameTeam(existing_df.rows[i], new_df[j]) =>
          Cardinality({w \in 1..Len(merged_df) : SameTeam(merged_df[w], new_df[j])}) = 1

\* C29: the frame dedupe_merge returns never holds two rows with the same
\* identity key (league and first available of uid, id, displayName), also
\* when there is no prior frame or an empty one; a key that occurs in both
\* inputs has exactly one row in it.
C29_NoDuplicateKeys ==
    /\ NoTwoRowsOfOneTeam
    /\ OneRowForSharedTeam

(***************************************************************************)
(* Claims about merge_game_data applied twice (checked under SpecTwice)    *)
(***************************************************************************)
\* the games without their last_updated
WithoutLastUpdated(games) ==
    [i \in 1..Len(games) |-> [games[i] EXCEPT !.last_updated = ""]]

==========================================================================
